---- MODULE Spec2Model ----
(***************************************************************************)
(* Adaptive RAG orchestrator (backend/app/rag/adaptive_rag.py) with the    *)
(* query decomposer it uses (backend/app/rag/hybrid_search.py).            *)
(* Texts are TLA+ strings handled character by character; distances are    *)
(* integers counting hundredths (0.01), so that the positional penalty     *)
(* search_idx * 0.01 is search_idx.                                        *)
(***************************************************************************)
EXTENDS Integers, Sequences, FiniteSets, TLC

\* ------------------------------------------------------------------------
\* Text primitives (Python str operations used by the code)
\* ------------------------------------------------------------------------
CharAt(s, i) == SubSeq(s, i, i)

UpperChars == "ABCDEFGHIJKLMNOPQRSTUVWXYZ"
LowerChars == "abcdefghijklmnopqrstuvwxyz"
DigitChars == "0123456789"

CharIn(c, chars) == \E i \in 1..Len(chars) : CharAt(chars, i) = c

LowerChar(c) ==
  IF CharIn(c, UpperChars)
    THEN CharAt(LowerChars, CHOOSE i \in 1..Len(UpperChars) : CharAt(UpperChars, i) = c)
    ELSE c

\* Every operator on texts first binds its arguments to their values
\* (s \in {text}), so that an argument is computed once however often the
\* body reads it.

\* s.lower() (ASCII), halving the text so that the recursion stays shallow
RECURSIVE Lower(_)
Lower(text) ==
  CHOOSE r \in
    { IF Len(s) = 0 THEN ""
      ELSE IF Len(s) = 1 THEN LowerChar(s)
      ELSE Lower(SubSeq(s, 1, Len(s) \div 2)) \o Lower(SubSeq(s, Len(s) \div 2 + 1, Len(s)))
      : s \in {text} } : TRUE

\* sub in s
Contains(sub, text) ==
  \E s \in {text} :
    \E i \in 1..(Len(s) - Len(sub) + 1) : SubSeq(s, i, i + Len(sub) - 1) = sub

\* 1-based position of the first occurrence of sub in s, 0 when absent
Find(sub, text) ==
  CHOOSE r \in
    { IF Contains(sub, s)
        THEN CHOOSE i \in 1..(Len(s) - Len(sub) + 1) :
               /\ SubSeq(s, i, i + Len(sub) - 1) = sub
               /\ \A j \in 1..(i - 1) : SubSeq(s, j, j + Len(sub) - 1) # sub
        ELSE 0
      : s \in {text} } : TRUE

\* s.split(sep)[0]
SplitHead(text, sep) ==
  CHOOSE r \in
    { IF at = 0 THEN s ELSE SubSeq(s, 1, at - 1)
      : <<s, at>> \in {<<text, Find(sep, text)>>} } : TRUE

IsSpace(c) == c \in {" ", "\n", "\t", "\r"}

\* s.strip()
Strip(text) ==
  CHOOSE r \in
    { IF \A i \in 1..Len(s) : IsSpace(CharAt(s, i)) THEN ""
      ELSE SubSeq(s,
             CHOOSE lo \in 1..Len(s) :
               ~IsSpace(CharAt(s, lo)) /\ \A j \in 1..(lo - 1) : IsSpace(CharAt(s, j)),
             CHOOSE hi \in 1..Len(s) :
               ~IsSpace(CharAt(s, hi)) /\ \A j \in (hi + 1)..Len(s) : IsSpace(CharAt(s, j)))
      : s \in {text} } : TRUE

\* regex \w
IsWordChar(c) ==
  CharIn(c, LowerChars) \/ CharIn(c, UpperChars) \/ CharIn(c, DigitChars) \/ c = "_"

\* regex \b at the gap before position i (1..Len(s)+1)
AtBoundary(s, i) ==
  LET before == i > 1 /\ IsWordChar(CharAt(s, i - 1))
      after  == i <= Len(s) /\ IsWordChar(CharAt(s, i))
  IN before # after

\* re.search(r'\b<lit>\b', s)
SearchWord(lit, text) ==
  \E s \in {text} :
    \E i \in 1..(Len(s) - Len(lit) + 1) :
      /\ SubSeq(s, i, i + Len(lit) - 1) = lit
      /\ AtBoundary(s, i)
      /\ AtBoundary(s, i + Len(lit))

\* re.search(r'\b<lit>', s)
SearchWordStart(lit, text) ==
  \E s \in {text} :
    \E i \in 1..(Len(s) - Len(lit) + 1) :
      /\ SubSeq(s, i, i + Len(lit) - 1) = lit
      /\ AtBoundary(s, i)

\* ' '.join(terms)
RECURSIVE JoinSpace(_)
JoinSpace(terms) ==
  CHOOSE r \in
    { IF Len(ts) = 0 THEN ""
      ELSE IF Len(ts) = 1 THEN ts[1]
      ELSE ts[1] \o " " \o JoinSpace(Tail(ts))
      : ts \in {terms} } : TRUE

\* ------------------------------------------------------------------------
\* QueryDecomposer (hybrid_search.py)
\* ------------------------------------------------------------------------
CONTEXT_MARKER == "\n\nContext:"

STOP_WORDS ==
  { "the", "a", "an", "and", "or", "but", "in", "on", "at", "to", "for",
    "of", "with", "by", "from", "up", "about", "into", "through", "during",
    "is", "are", "was", "were", "be", "been", "being", "have", "has", "had",
    "do", "does", "did", "will", "would", "could", "should", "may", "might",
    "must", "can", "this", "that", "these", "those", "i", "you", "he", "she",
    "it", "we", "they", "what", "which", "who", "when", "where", "why", "how",
    "all", "each", "every", "both", "few", "more", "most", "other", "some",
    "such", "no", "nor", "not", "only", "same", "so", "than", "too", "very",
    "just", "my", "me", "your", "him", "her", "its", "our", "their" }

\* re.findall(r'"([^"]+)"', text) and re.sub(r'"([^"]+)"', '', text):
\* the phrases found, left to right, and the text left over
RECURSIVE ScanQuoted(_)
ScanQuoted(text) ==
  CHOOSE res \in
    { IF opens = {} THEN [phrases |-> <<>>, rest |-> s]
      ELSE CHOOSE res2 \in
             { [phrases |-> <<SubSeq(s, i + 1, j - 1)>> \o r.phrases,
                rest |-> SubSeq(s, 1, i - 1) \o r.rest]
               : <<i, j, r>> \in
                   { <<i, j, ScanQuoted(SubSeq(s, j + 1, Len(s)))>>
                     : <<i, j>> \in
                         { <<i, CHOOSE jj \in (i + 2)..Len(s) :
                                  /\ CharAt(s, jj) = "\""
                                  /\ \A m \in (i + 1)..(jj - 1) : CharAt(s, m) # "\"">>
                           : i \in {CHOOSE x \in opens : \A y \in opens : x <= y} } } } : TRUE
      : <<s, opens>> \in
          { <<s, {i \in 1..Len(s) :
                    /\ CharAt(s, i) = "\""
                    /\ CharAt(s, i + 1) # "\""
                    /\ \E j \in (i + 2)..Len(s) : CharAt(s, j) = "\""}>>
            : s \in {text} } } : TRUE

\* re.findall(r'\b[\w]+\b', s): the maximal runs of word characters, left to right
FindWords(text) ==
  CHOOSE words \in
    { [m \in 1..Cardinality(starts) |->
         CHOOSE w \in
           { SubSeq(s, i, CHOOSE e \in i..Len(s) :
                            /\ \A n \in i..e : IsWordChar(CharAt(s, n))
                            /\ (e = Len(s) \/ ~IsWordChar(CharAt(s, e + 1))))
             : i \in {CHOOSE x \in starts : Cardinality({j \in starts : j < x}) = m - 1} }
           : TRUE]
      : <<s, starts>> \in
          { <<s, {i \in 1..Len(s) :
                    IsWordChar(CharAt(s, i)) /\ (i = 1 \/ ~IsWordChar(CharAt(s, i - 1)))}>>
            : s \in {text} } } : TRUE

_tokenize(text) ==
  CHOOSE tokens \in
    { q.phrases \o FindWords(Lower(q.rest)) : q \in {ScanQuoted(text)} } : TRUE

\* list(dict.fromkeys(xs))
RECURSIVE DedupExact(_, _)
DedupExact(items, seen_items) ==
  CHOOSE r \in
    { IF Len(xs) = 0 THEN <<>>
      ELSE IF Head(xs) \in seen THEN DedupExact(Tail(xs), seen)
      ELSE <<Head(xs)>> \o DedupExact(Tail(xs), seen \cup {Head(xs)})
      : <<xs, seen>> \in {<<items, seen_items>>} } : TRUE

_extract_key_terms(query) ==
  LET keep(t) == Lower(t) \notin STOP_WORDS /\ Len(t) > 1
  IN CHOOSE key_terms \in
       { DedupExact(SelectSeq(tokens, keep), {}) : tokens \in {_tokenize(query)} } : TRUE

\* the indicators looked for anywhere in the text, inside longer words too
IsComprehensiveBySubstring(query) ==
  \E query_lower \in {Lower(query)} :
    \E w \in {"all", "list", "show", "enumerate", "what are"} : Contains(w, query_lower)

is_comprehensive_query(query) ==
  \E query_lower \in {Lower(query)} :
     \/ SearchWord("all", query_lower)
     \/ SearchWord("list", query_lower)
     \/ SearchWord("show", query_lower)
     \/ SearchWord("enumerate", query_lower)
     \/ SearchWord("what are", query_lower)
     \/ SearchWord("find all", query_lower)
     \/ SearchWord("get all", query_lower)

detect_intent(query) ==
  CHOOSE intent \in
    { IF \/ SearchWord("how to", query_lower)
         \/ SearchWord("steps", query_lower)
         \/ SearchWordStart("procedure", query_lower)
        THEN "procedural"
      ELSE IF \/ SearchWord("all", query_lower)
              \/ SearchWord("list", query_lower)
              \/ SearchWord("show", query_lower)
              \/ SearchWord("enumerate", query_lower)
        THEN "comprehensive"
      ELSE IF SearchWord("why", query_lower) \/ SearchWord("explain", query_lower)
        THEN "explanatory"
      ELSE IF SearchWord("what is", query_lower) \/ SearchWord("what are", query_lower)
        THEN "explanatory"
      ELSE IF \/ SearchWord("find", query_lower)
              \/ SearchWord("get", query_lower)
              \/ SearchWord("fetch", query_lower)
        THEN "specific"
      ELSE "general"
      : query_lower \in {Lower(query)} } : TRUE

_generate_sub_queries(key_terms) ==
  CHOOSE sub_queries \in
    { LET n == Len(terms)
          singles  == terms
          pairs    == [i \in 1..(n - 1) |-> terms[i] \o " " \o terms[i + 1]]
          all      == IF n > 1 THEN <<JoinSpace(terms)>> ELSE <<>>
          skips    == [i \in 1..(n - 2) |-> terms[i] \o " " \o terms[i + 2]]
          triplets == [i \in 1..(n - 2) |->
                        terms[i] \o " " \o terms[i + 1] \o " " \o terms[i + 2]]
      IN IF n = 0 THEN <<>>
         ELSE singles \o pairs \o all \o skips \o triplets
      : terms \in {key_terms} } : TRUE

\* the seen-set loop of decompose_comprehensive_query
RECURSIVE DedupLower(_, _)
DedupLower(sub_queries, seen_lower) ==
  CHOOSE r \in
    { IF Len(qs) = 0 THEN <<>>
      ELSE IF Lower(Head(qs)) \in seen THEN DedupLower(Tail(qs), seen)
      ELSE <<Head(qs)>> \o DedupLower(Tail(qs), seen \cup {Lower(Head(qs))})
      : <<qs, seen>> \in {<<sub_queries, seen_lower>>} } : TRUE

MAX_SUB_QUERIES == 8

decompose_comprehensive_query(query) ==
  CHOOSE r \in
    { SubSeq(unique_queries, 1,
             IF Len(unique_queries) < MAX_SUB_QUERIES
               THEN Len(unique_queries) ELSE MAX_SUB_QUERIES)
      : unique_queries \in
          { DedupLower(<<q>> \o _generate_sub_queries(_extract_key_terms(q)), {})
            : q \in {query} } } : TRUE

\* query.strip() alone, without the split at the context marker
CleanQueryKeepingContext(query) == Strip(query)

\* the first lines of decompose: the query without an appended context
CleanQuery(query) ==
  CHOOSE r \in
    { IF Contains(CONTEXT_MARKER, q)
        THEN Strip(SplitHead(q, CONTEXT_MARKER))
        ELSE Strip(q)
      : q \in {query} } : TRUE

decompose(query) ==
  CHOOSE r \in
    { [original |-> clean_query,
       decomposed |->
         IF comprehensive \/ intent \in {"comprehensive", "procedural", "explanatory"}
           THEN decompose_comprehensive_query(clean_query)
         ELSE CHOOSE d \in
                { IF Len(generated) = 0 THEN <<clean_query>> ELSE generated
                  : generated \in {_generate_sub_queries(_extract_key_terms(clean_query))} }
                : TRUE,
       intent |-> intent,
       is_comprehensive |-> comprehensive]
      : <<clean_query, intent, comprehensive>> \in
          { <<c, detect_intent(c), is_comprehensive_query(c)>>
            : c \in {CleanQuery(query)} } } : TRUE

\* ------------------------------------------------------------------------
\* Bounds of the model and the inputs drawn from them
\* ------------------------------------------------------------------------
MaxAttemptsBound == 2      \* max_retrieval_attempts ranges over 0..MaxAttemptsBound
MaxResults == 1            \* hits one similarity search returns at most

\* calls of query_sync: the user query and the conversation context
\* ("" = first message of a conversation)
Requests ==
  { [user_query |-> "list api", conv_context |-> ""],
    [user_query |-> "get user", conv_context |-> ""],
    [user_query |-> "get it", conv_context |-> "User: api"] }

\* texts the refinement LLM may answer with (before .strip())
RefinedOutputs == { " api list ", "user" }

\* texts the answer LLM may answer with
AnswerOutputs == { "Use GET /users.", "I'm sorry, it is Not Found." }

\* chunks stored in the vector index: text plus raw (JSON-encoded) metadata
Chunks ==
  { [text |-> "GET /users", doc_id |-> "docs/a.json", start_line |-> "1", end_line |-> "4",
     section_path_str |-> "Auth", section_path_json |-> "[\"Auth\"]",
     commands_json |-> "[\"curl x\"]"],
    [text |-> "intro", doc_id |-> "docs/b.json", start_line |-> "1", end_line |-> "2",
     section_path_str |-> "", section_path_json |-> "[]", commands_json |-> "[]"] }

\* distances the index reports, in hundredths: one hundredth apart, so that the
\* penalty of a later search can tie with or outweigh a closer match
Distances == {8, 9}

\* what col.query can return for one sub-query: at most MaxResults distinct
\* chunks in ascending distance order
SearchResults ==
  { r \in UNION { [1..n -> [chunk : Chunks, dist : Distances]] : n \in 0..MaxResults } :
      /\ \A i, j \in 1..Len(r) : i < j => r[i].chunk # r[j].chunk
      /\ \A i, j \in 1..Len(r) : i < j => r[i].dist <= r[j].dist }

\* cross-encoder scores
RerankScores == {0, 1}

\* what self.reranker.predict can do for n pairs: raise, or score each pair
PredictOutcomes(n) ==
  {[ok |-> FALSE, scores |-> <<>>]}
    \cup {[ok |-> TRUE, scores |-> sc] : sc \in [1..n -> RerankScores]}

\* ------------------------------------------------------------------------
\* Retrieval pass helpers (AdaptiveRAG._retrieve_documents)
\* ------------------------------------------------------------------------
\* s.split(sep) for a non-empty separator
RECURSIVE SplitAll(_, _)
SplitAll(text, sep) ==
  CHOOSE r \in
    { IF at = 0 THEN <<s>>
      ELSE <<SubSeq(s, 1, at - 1)>> \o SplitAll(SubSeq(s, at + Len(sep), Len(s)), sep)
      : <<s, at>> \in {<<text, Find(sep, text)>>} } : TRUE

\* json.loads of a metadata list field: a JSON array of plain strings;
\* anything else makes json.loads (or the later use as a list) raise
JsonLoadsList(s) ==
  IF s = "[]" THEN [ok |-> TRUE, value |-> <<>>]
  ELSE IF Len(s) >= 4 /\ SubSeq(s, 1, 2) = "[\"" /\ SubSeq(s, Len(s) - 1, Len(s)) = "\"]"
    THEN [ok |-> TRUE, value |-> SplitAll(SubSeq(s, 3, Len(s) - 2), "\", \"")]
  ELSE [ok |-> FALSE, value |-> <<>>]

\* str(list_of_str), e.g. ['Auth', 'Tokens']
RECURSIVE JoinReprs(_)
JoinReprs(xs) ==
  IF Len(xs) = 0 THEN ""
  ELSE IF Len(xs) = 1 THEN "'" \o xs[1] \o "'"
  ELSE "'" \o xs[1] \o "', " \o JoinReprs(Tail(xs))

PyStrList(xs) == "[" \o JoinReprs(xs) \o "]"

\* a lookup that never finds the id: every sighting becomes an entry of its own
IndexOfIdNever(all_hits, hit_id) == 0

\* position of the entry with this id in the insertion-ordered dict, 0 if absent
IndexOfId(all_hits, hit_id) ==
  IF \E i \in 1..Len(all_hits) : all_hits[i].id = hit_id
    THEN CHOOSE i \in 1..Len(all_hits) : all_hits[i].id = hit_id
    ELSE 0

\* the inner for-loop body letting every repeat sighting overwrite the score
AggregateHitLastWins(all_hits, raw, search_idx) ==
  LET md == raw.chunk
      section_path == JsonLoadsList(md.section_path_json).value
      hit_id == md.doc_id \o "_" \o PyStrList(section_path)
      pos == IndexOfId(all_hits, hit_id)
  IN IF pos = 0
       THEN Append(all_hits,
              [id |-> hit_id,
               text |-> md.text,
               metadata |-> [doc_id |-> md.doc_id,
                             start_line |-> md.start_line,
                             end_line |-> md.end_line,
                             section_path_str |-> md.section_path_str,
                             section_path_json |-> md.section_path_json,
                             commands_json |-> md.commands_json,
                             commands |-> JsonLoadsList(md.commands_json).value,
                             section_path |-> section_path],
               distance |-> raw.dist,
               combined_score |-> raw.dist + search_idx,
               source |-> md.doc_id,
               search_order |-> search_idx,
               source_diversity |-> {md.doc_id}])
     ELSE [all_hits EXCEPT ![pos].distance = raw.dist,
                           ![pos].combined_score = raw.dist + search_idx]

\* body of the inner for-loop, lines 395-429, for one raw hit of search search_idx
AggregateHit(all_hits, raw, search_idx) ==
  LET md == raw.chunk
      commands == JsonLoadsList(md.commands_json).value
      section_path == JsonLoadsList(md.section_path_json).value
      source == md.doc_id
      hit_id == source \o "_" \o PyStrList(section_path)
      combined_score == raw.dist + search_idx
      pos == IndexOfId(all_hits, hit_id)
  IN IF pos = 0
       THEN Append(all_hits,
              [id |-> hit_id,
               text |-> md.text,
               metadata |-> [doc_id |-> md.doc_id,
                             start_line |-> md.start_line,
                             end_line |-> md.end_line,
                             section_path_str |-> md.section_path_str,
                             section_path_json |-> md.section_path_json,
                             commands_json |-> md.commands_json,
                             commands |-> commands,
                             section_path |-> section_path],
               distance |-> raw.dist,
               combined_score |-> combined_score,
               source |-> source,
               search_order |-> search_idx,
               source_diversity |-> {source}])
     ELSE IF combined_score < all_hits[pos].combined_score
       THEN [all_hits EXCEPT ![pos].distance = raw.dist,
                             ![pos].combined_score = combined_score,
                             ![pos].source_diversity = @ \cup {source}]
     ELSE [all_hits EXCEPT ![pos].source_diversity = @ \cup {source}]

\* the raw hits res[lo..hi] of one search, in the order the index returned them
RECURSIVE AggregateRange(_, _, _, _, _)
AggregateRange(all_hits, res, lo, hi, search_idx) ==
  CHOOSE r \in
    { IF a > b THEN acc
      ELSE IF a = b THEN AggregateHit(acc, res[a], search_idx)
      ELSE AggregateRange(AggregateRange(acc, res, a, (a + b) \div 2, search_idx),
                          res, ((a + b) \div 2) + 1, b, search_idx)
      : <<acc, a, b>> \in {<<all_hits, lo, hi>>} } : TRUE

\* the inner for-loop over the raw hits of one search
AggregateSearch(all_hits, res, search_idx) ==
  AggregateRange(all_hits, res, 1, Len(res), search_idx)

\* a metadata field of some raw hit does not decode
DecodeFails(res) ==
  \E i \in 1..Len(res) :
    \/ ~JsonLoadsList(res[i].chunk.commands_json).ok
    \/ ~JsonLoadsList(res[i].chunk.section_path_json).ok

\* the dict value handed on by all_hits.values(): the hit without the
\* bookkeeping kept beside it (hit_id, search_order, source_diversity)
HitValue(e) ==
  [text |-> e.text, metadata |-> e.metadata, distance |-> e.distance,
   combined_score |-> e.combined_score, source |-> e.source]

\* sorted(hits, key=lambda x: x['combined_score']): stable, ascending. The
\* hit at input position i lands behind the hits with a lower score and the
\* hits with the same score that came before it
SortByCombinedScore(xs) ==
  CHOOSE r \in
    { [p \in 1..Len(hits) |-> hits[CHOOSE i \in 1..Len(hits) : place[i] = p]]
      : <<hits, place>> \in
          { <<h, [i \in 1..Len(h) |->
                   Cardinality({ j \in 1..Len(h) :
                     \/ h[j].combined_score < h[i].combined_score
                     \/ h[j].combined_score = h[i].combined_score /\ j <= i })]>>
            : h \in {xs} } } : TRUE

\* the sort without reverse=True: the lowest score first
SortByScoreAscending(xs) ==
  [p \in 1..Len(xs) |->
     xs[CHOOSE i \in 1..Len(xs) :
          Cardinality({ j \in 1..Len(xs) :
            \/ xs[j].score < xs[i].score
            \/ xs[j].score = xs[i].score /\ j <= i }) = p]]

\* sorted(zip(documents, scores), key=lambda x: x[1], reverse=True): stable,
\* descending (equal scores keep their input order)
RECURSIVE InsertByScoreDesc(_, _)
InsertByScoreDesc(sorted_pairs, pair) ==
  CHOOSE r \in
    { IF Len(sorted) = 0 THEN <<x>>
      ELSE IF x.score > sorted[Len(sorted)].score
        THEN Append(InsertByScoreDesc(SubSeq(sorted, 1, Len(sorted) - 1), x),
                    sorted[Len(sorted)])
      ELSE Append(sorted, x)
      : <<sorted, x>> \in {<<sorted_pairs, pair>>} } : TRUE

RECURSIVE SortByScoreDesc(_)
SortByScoreDesc(xs) ==
  IF Len(xs) = 0 THEN <<>>
  ELSE InsertByScoreDesc(SortByScoreDesc(SubSeq(xs, 1, Len(xs) - 1)), xs[Len(xs)])

\* xs[:n]
Take(items, n) ==
  CHOOSE r \in { SubSeq(xs, 1, IF Len(xs) < n THEN Len(xs) ELSE n) : xs \in {items} } : TRUE

Min(a, b) == IF a < b THEN a ELSE b

K_COMPREHENSIVE == 50
K_DEFAULT == 20
RERANK_CAP == 8

\* all_hits.values()[:k]: the first k hits in insertion order
RankedHitsUnsorted(all_hits, k) ==
  Take([i \in 1..Len(all_hits) |-> HitValue(all_hits[i])], k)

\* sorted(all_hits.values(), key=combined_score)[:k]
RankedHits(all_hits, k) ==
  Take(SortByCombinedScore([i \in 1..Len(all_hits) |-> HitValue(all_hits[i])]), k)

\* _rerank_documents, lines 248-294: has_reranker is self.reranker being loaded;
\* predict is what self.reranker.predict does: it raises (ok = FALSE) or returns
\* one score per document
_rerank_documents(documents, top_k, has_reranker, predict) ==
  IF ~has_reranker \/ Len(documents) = 0 THEN Take(documents, top_k)
  ELSE IF ~predict.ok THEN Take(documents, top_k)
  ELSE LET scores == predict.scores
           pairs == [i \in 1..Len(documents) |-> [doc |-> documents[i], score |-> scores[i]]]
           ranked_docs == Take(SortByScoreDesc(pairs), top_k)
       IN [i \in 1..Len(ranked_docs) |->
             [text |-> ranked_docs[i].doc.text,
              metadata |-> ranked_docs[i].doc.metadata,
              distance |-> ranked_docs[i].doc.distance,
              combined_score |-> ranked_docs[i].doc.combined_score,
              source |-> ranked_docs[i].doc.source,
              rerank_score |-> ranked_docs[i].score]]

\* ------------------------------------------------------------------------
\* Orchestrator helpers
\* ------------------------------------------------------------------------
IsDigit(c) == CharIn(c, DigitChars)

\* re.findall(r'(#\d+|\d+(?:st|nd|rd|th))\b', s) finds something
SearchNumberedFormat(text) ==
  \E s \in {text} : \E i \in 1..Len(s) : \E j \in i..Len(s) :
    /\ \A m \in i..j : IsDigit(CharAt(s, m))
    /\ \/ i > 1 /\ CharAt(s, i - 1) = "#" /\ AtBoundary(s, j + 1)
       \/ /\ SubSeq(s, j + 1, j + 2) \in {"st", "nd", "rd", "th"}
          /\ AtBoundary(s, j + 3)

\* _extract_reference_indicators(query) returns a non-empty list
HasReferenceIndicators(query) ==
  \E query_lower \in {Lower(query)} :
     \/ \E w \in {"first", "second", "third", "fourth", "fifth", "sixth", "seventh",
                  "eighth", "ninth", "tenth", "eleventh", "twelfth"} :
          SearchWord(w, query_lower)
     \/ SearchNumberedFormat(query_lower)
     \/ \E w \in {"this", "that", "these", "those", "it"} : SearchWord(w, query_lower)
     \/ \E w \in {"previous", "last", "next", "above", "below", "earlier", "mentioned"} :
          SearchWord(w, query_lower)
     \/ \E w \in {"another", "one more", "additional", "more about", "tell me about"} :
          SearchWord(w, query_lower)

\* the query the retrieval pass works with (lines 300-327)
RetrievalQuery(state_query, full_context) ==
  CHOOSE r \in
    { IF full_context # "" /\ clean # state_query
        THEN IF HasReferenceIndicators(clean)
               THEN clean \o "\n\nReferencing previous list items from: " \o full_context
               ELSE clean \o "\n\nBased on previous discussion about: " \o full_context
        ELSE clean
      : clean \in {CleanQuery(state_query)} } : TRUE

\* HybridSearchStrategy.analyze_query(query)['is_comprehensive']
AnalyzeIsComprehensive(query) == decompose(query).is_comprehensive

\* HybridSearchStrategy.get_search_queries(query)
get_search_queries(query) == decompose(query).decomposed

\* RAGQueryEngine.build_context(self, query, hits): its parameters after self
BUILD_CONTEXT_PARAMS == <<"query", "hits">>

\* positional arguments of the call self.rag_engine.build_context(docs)
BUILD_CONTEXT_CALL_ARGS == <<"docs">>

\* Python binds a call's positional arguments to the required parameters;
\* a missing one raises TypeError before the body runs
BindCall(params, args) ==
  IF Len(args) = Len(params) THEN "ok" ELSE "TypeError"

BUILD_CONTEXT_TYPE_ERROR ==
  "RAGQueryEngine.build_context() missing 1 required positional argument: 'hits'"

\* RAGQueryEngine.build_context: the source descriptors (context_text only
\* feeds the prompt)
build_context_sources(hits) ==
  [i \in 1..Len(hits) |->
     [source |-> hits[i].metadata.doc_id \o ":" \o hits[i].metadata.start_line
                   \o "-" \o hits[i].metadata.end_line,
      section |-> hits[i].metadata.section_path_str]]

NO_DOCS_RESPONSE ==
  "I could not find relevant information to answer your question. Please rephrase your query."

NEGATIVE_PHRASES ==
  { "could not find", "not found", "don't have", "not available",
    "no information", "unable to", "i'm sorry", "i apologize" }

\* _evaluate_response applying the lenient rule to every query
EvaluateIgnoringDocs(response, state_query, docs, att, max_att) ==
  (~\E phrase \in NEGATIVE_PHRASES : Contains(phrase, Lower(response))) \/ att >= max_att

\* _evaluate_response without the escape hatch at the attempt cap
EvaluateWithoutCap(response, state_query, docs, att, max_att) ==
  IF AnalyzeIsComprehensive(CleanQuery(state_query))
    THEN (~\E phrase \in NEGATIVE_PHRASES : Contains(phrase, Lower(response))) /\ Len(docs) > 0
    ELSE ~\E phrase \in NEGATIVE_PHRASES : Contains(phrase, Lower(response))

\* the value _evaluate_response returns for is_relevant
EvaluateIsRelevant(response, state_query, docs, att, max_att) ==
  LET is_negative == \E phrase \in NEGATIVE_PHRASES : Contains(phrase, Lower(response))
      has_docs == Len(docs) > 0
      clean_query == CleanQuery(state_query)
      is_comp == AnalyzeIsComprehensive(clean_query)
  IN IF is_comp
       THEN (~is_negative /\ has_docs) \/ att >= max_att
       ELSE ~is_negative \/ att >= max_att

\* _should_refine comparing the cap with > instead of >=
ShouldRefinePastCap(relevant, att, max_att) ==
  IF relevant \/ att > max_att THEN "accept" ELSE "refine"

\* _should_refine deciding on is_relevant alone
ShouldRefineOnRelevanceOnly(relevant, att, max_att) ==
  IF relevant THEN "accept" ELSE "refine"

\* _should_refine accepting every answer
ShouldAcceptAlways(relevant, att, max_att) == "accept"

\* _should_refine: the edge taken after evaluate_response
_should_refine(relevant, att, max_att) ==
  IF relevant \/ att >= max_att THEN "accept" ELSE "refine"

\* query_sync letting the exception through to its caller
QuerySyncReraises(msg) == [raised |-> msg]

\* the except clause of query_sync
QuerySyncOnException(msg) ==
  [response |-> "Error processing query: " \o msg,
   sources |-> <<>>,
   attempts |-> 1,
   error |-> msg]

\* the normal return of query_sync
QuerySyncReturnValue(final_resp, llm_resp, srcs, att, analysis) ==
  [response |-> IF final_resp # "" THEN final_resp ELSE llm_resp,
   sources |-> srcs,
   attempts |-> att,
   query_analysis |-> analysis]

DEFAULT_ANALYSIS == [intent |-> "search", topics |-> <<>>]
PARSED_ANALYSIS == [intent |-> "explanation", topics |-> <<"api">>]
EMPTY_ANALYSIS == [intent |-> "", topics |-> <<>>]
NoResult == [response |-> "", pending |-> TRUE]

\* ------------------------------------------------------------------------
\* State
\* ------------------------------------------------------------------------
VARIABLES
  pc,                    \* node of the graph about to run / position in query_sync
  reranker,              \* self.reranker is loaded (FALSE = None)
  query, retrieved_docs, query_analysis, llm_response, is_relevant, attempts,
  max_attempts, final_response, sources, conversation_context,   \* AdaptiveRAGState
  k, is_comprehensive, retrieval_query, queries_to_search, search_idx, all_hits,
                         \* locals of the running _retrieve_documents
  result,                \* what query_sync returned
  llm_calls,             \* _call_llm invocations of this run, by calling stage
  generate_runs,         \* executions of the generate_response node in this run
  fault,                 \* the collaborator failure met by the step just taken
  searches,              \* a fixed index snapshot: what col.query returns for the
                         \* i-th sub-query of a pass (<<>> = the index answers freely)
  search_query,          \* the SearchQuery a direct call of decompose returned
  conversation_history, turn_counter, max_history_turns, conversation_id,
                         \* one ConversationContextManager (timestamps left out:
                         \* no operation reads them)
  added,                 \* every turn add_turn created, in creation order
  callers,               \* the add_turn each request thread is in the middle of
  rag_context,           \* what get_context_for_rag returned since the history
                         \* last changed
  conversations,         \* ConversationStore.conversations: the ids it holds, in
                         \* the order of the dict (the order they were inserted)
  created,               \* how many conversation ids have been generated
  managers,              \* the ConversationContextManager held under each key,
                         \* in the order of the dict: its conversation_id and
                         \* its turn_counter
  last_used,             \* the ids it holds, the least recently used first
  cleanup,               \* the cleanup_old_conversations calls made and the cap
                         \* of the last one
  pending_tool, collected_parameters, missing_parameters,
                         \* one ParameterCollector ("" = no pending tool; the
                         \* context dict is left out: no operation reads it)
  returned,              \* the last ParameterCollector call: its arguments and
                         \* what it returned
  reranked,              \* what a direct call of _rerank_documents returned
  refinement_prompt,     \* the prompt the last _refine_query sent to the LLM
  original_query         \* state['query'] as query_sync put it into initial_state

state_vars == <<query, retrieved_docs, query_analysis, llm_response, is_relevant,
                attempts, max_attempts, final_response, sources, conversation_context>>
retrieve_vars == <<k, is_comprehensive, retrieval_query, queries_to_search, search_idx,
                   all_hits>>
config_vars == <<max_history_turns, conversation_id>>

conv_vars == <<conversation_history, turn_counter, config_vars, added, callers, rag_context>>

refine_vars == <<refinement_prompt, original_query>>

rag_vars == <<pc, reranker, state_vars, retrieve_vars, result, llm_calls, generate_runs, fault,
              searches, search_query, refine_vars, reranked>>

store_vars == <<conversations, created, managers, last_used, cleanup>>

collector_vars == <<pending_tool, collected_parameters, missing_parameters, returned>>

vars == <<rag_vars, conv_vars, store_vars, collector_vars>>

NoRetrieval ==
  /\ k = 0
  /\ is_comprehensive = FALSE
  /\ retrieval_query = ""
  /\ queries_to_search = <<>>
  /\ search_idx = 0
  /\ all_hits = <<>>

\* get_context_for_rag has not been called
NoContext == [calls |-> 0, use_compact |-> FALSE, recent_context |-> "",
              full_context |-> "", conversation_id |-> "", turn_count |-> 0]

\* _generate_conversation_id: twelve hex digits of a hash of the clock
SOME_CONVERSATION_ID == "0f1e2d3c4b5a"

\* DEFAULT_MAX_HISTORY_TURNS: the default of max_history_turns
DEFAULT_MAX_HISTORY_TURNS == 50

\* request threads of the worker pool serving the synchronous endpoints
Callers == {"first", "second"}

\* a thread that is not inside add_turn
NotCalling == [at |-> "idle", turn |-> [role |-> "", content |-> "", turn_id |-> 0],
               loaded |-> 0, sliced |-> <<>>]

\* ConversationStore(): no conversation yet
NoStore ==
  /\ conversations = <<>>
  /\ created = 0
  /\ managers = <<>>
  /\ last_used = <<>>
  /\ cleanup = [calls |-> 0, max_conversations |-> 0]

\* ConversationContextManager(): a conversation nobody has talked in
NoConversation ==
  /\ NoStore
  /\ callers = [t \in Callers |-> NotCalling]
  /\ conversation_history = <<>>
  /\ turn_counter = 0
  /\ max_history_turns = DEFAULT_MAX_HISTORY_TURNS
  /\ conversation_id = SOME_CONVERSATION_ID
  /\ added = <<>>
  /\ rag_context = NoContext

\* a dict without keys
EmptyDict == [p \in {} |-> ""]

\* ParameterCollector(): nothing pending, nothing called
NoCollector ==
  /\ pending_tool = ""
  /\ collected_parameters = EmptyDict
  /\ missing_parameters = <<>>
  /\ returned = [op |-> "", calls |-> 0, all_parameters_available |-> FALSE,
                 parameters |-> EmptyDict]

\* no query_sync has begun, no _refine_query has run and no direct call of
\* _rerank_documents has returned
NoRefinement ==
  /\ reranked = <<>>
  /\ refinement_prompt = ""
  /\ original_query = ""

\* no direct call of decompose has returned
NoSearchQuery == [original |-> "", decomposed |-> <<>>, intent |-> "", is_comprehensive |-> FALSE]

\* AdaptiveRAG.__init__: the object before any query
Init ==
  /\ pc = "idle"
  /\ reranker \in BOOLEAN
  /\ max_attempts \in 0..MaxAttemptsBound
  /\ query = ""
  /\ retrieved_docs = <<>>
  /\ query_analysis = EMPTY_ANALYSIS
  /\ llm_response = ""
  /\ is_relevant = FALSE
  /\ attempts = 0
  /\ final_response = ""
  /\ sources = <<>>
  /\ conversation_context = ""
  /\ NoRetrieval
  /\ result = NoResult
  /\ llm_calls = [analysis |-> 0, answer |-> 0, refine |-> 0]
  /\ generate_runs = 0
  /\ fault = "none"
  /\ searches = <<>>
  /\ search_query = NoSearchQuery
  /\ NoRefinement
  /\ NoCollector
  /\ NoConversation

\* ------------------------------------------------------------------------
\* Actions
\* ------------------------------------------------------------------------
\* query_sync up to graph.invoke(initial_state), lines 704-744
QuerySync(user_query, conv_context) ==
  /\ pc = "idle"
  /\ query' = IF conv_context # ""
                THEN user_query \o "\n\nContext: " \o conv_context
                ELSE user_query
  /\ conversation_context' =
       IF conv_context # ""
         THEN "[CONVERSATION CONTEXT]\n" \o conv_context \o "\n\n[CURRENT QUERY]\n" \o user_query
         ELSE user_query
  /\ retrieved_docs' = <<>>
  /\ query_analysis' = EMPTY_ANALYSIS
  /\ llm_response' = ""
  /\ is_relevant' = FALSE
  /\ attempts' = 0
  /\ final_response' = ""
  /\ sources' = <<>>
  /\ original_query' = query'
  /\ pc' = "analyze_query"
  /\ fault' = "none"
  /\ UNCHANGED <<conv_vars, store_vars, collector_vars, reranked, refinement_prompt, searches, search_query, reranker, max_attempts, retrieve_vars, result, llm_calls, generate_runs>>

\* _analyze_query: one LLM call whose answer parses, does not parse, or that raises
AnalyzeQuery ==
  /\ pc = "analyze_query"
  /\ \E outcome \in {"json", "malformed", "raise"} :
       /\ query_analysis' = IF outcome = "json" THEN PARSED_ANALYSIS ELSE DEFAULT_ANALYSIS
       /\ fault' = IF outcome = "json" THEN "none" ELSE "analysis"
  /\ attempts' = 0
  /\ llm_calls' = [llm_calls EXCEPT !.analysis = @ + 1]
  /\ pc' = "retrieve_docs"
  /\ UNCHANGED <<conv_vars, store_vars, collector_vars, reranked, refine_vars, searches, search_query, reranker, query, retrieved_docs, llm_response, is_relevant, max_attempts,
                 final_response, sources, conversation_context, retrieve_vars, result,
                 generate_runs>>

\* an exception leaves the graph and reaches the except clause of query_sync
RaiseToQuerySync(msg) ==
  /\ result' = QuerySyncOnException(msg)
  /\ pc' = "done"

\* the locals of _retrieve_documents end with the call
ResetRetrieval ==
  /\ k' = 0
  /\ is_comprehensive' = FALSE
  /\ retrieval_query' = ""
  /\ queries_to_search' = <<>>
  /\ search_idx' = 0
  /\ all_hits' = <<>>

\* _retrieve_documents without its except clause: the failure leaves the graph
RetrieveFailedAborts ==
  /\ RaiseToQuerySync("retrieval failed")
  /\ UNCHANGED retrieved_docs

\* the except clause of _retrieve_documents, lines 487-491
RetrieveFailed ==
  /\ retrieved_docs' = <<>>
  /\ pc' = "generate_response"
  /\ UNCHANGED result

\* _retrieve_documents up to the search loop, lines 296-375: get_collection or
\* loading the embedding model may raise
RetrieveBegin ==
  /\ pc = "retrieve_docs"
  /\ \E q \in {RetrievalQuery(query, conversation_context)} :
     \E comp \in {AnalyzeIsComprehensive(q)} :
        \/ /\ retrieval_query' = q
           /\ is_comprehensive' = comp
           /\ k' = IF comp THEN K_COMPREHENSIVE ELSE K_DEFAULT
           /\ queries_to_search' = get_search_queries(q)
           /\ search_idx' = 0
           /\ all_hits' = <<>>
           /\ pc' = "search_loop"
           /\ fault' = "none"
           /\ UNCHANGED <<retrieved_docs, result>>
        \/ /\ fault' = "retrieval"
           /\ RetrieveFailed
           /\ ResetRetrieval
  /\ UNCHANGED <<conv_vars, store_vars, collector_vars, reranked, refine_vars, searches, search_query, reranker, query, query_analysis, llm_response,
                 is_relevant, attempts, max_attempts, final_response, sources,
                 conversation_context,
                 llm_calls, generate_runs>>

\* the body of the search loop for the result res of col.query, lines 387-429:
\* decoding a hit's metadata may raise
SearchIteration(res) ==
  IF DecodeFails(Take(res, k))
    THEN fault' = "retrieval" /\ RetrieveFailed /\ ResetRetrieval
    ELSE /\ all_hits' = AggregateSearch(all_hits, Take(res, k), search_idx)
         /\ search_idx' = search_idx + 1
         /\ fault' = "none"
         /\ UNCHANGED <<pc, retrieved_docs, k, is_comprehensive, retrieval_query,
                        queries_to_search, result>>

\* one iteration of the search loop, lines 377-429: encode and col.query may
\* raise, and so may decoding a hit's metadata
RetrieveSearch ==
  /\ pc = "search_loop"
  /\ search_idx < Len(queries_to_search)
  /\ \/ \E res \in SearchResults : SearchIteration(res)
     \/ fault' = "retrieval" /\ RetrieveFailed /\ ResetRetrieval
  /\ UNCHANGED <<conv_vars, store_vars, collector_vars, reranked, refine_vars, searches, search_query, reranker, query, query_analysis, llm_response,
                 is_relevant, attempts, max_attempts, final_response, sources,
                 conversation_context, llm_calls, generate_runs>>

\* after the loop, lines 431-485: rank, cut to k, re-rank when a re-ranker is
\* loaded
RetrieveFinish ==
  /\ pc = "search_loop"
  /\ search_idx = Len(queries_to_search)
  /\ \E hits \in {RankedHits(all_hits, k)} :
     \E rerank_top_k \in {IF is_comprehensive THEN k ELSE Min(RERANK_CAP, k)} :
        IF reranker /\ Len(hits) > 0
          THEN \E predict \in PredictOutcomes(Len(hits)) :
                 /\ retrieved_docs' = _rerank_documents(hits, rerank_top_k, reranker, predict)
                 /\ fault' = IF predict.ok THEN "none" ELSE "rerank"
          ELSE retrieved_docs' = hits /\ fault' = "none"
  /\ pc' = "generate_response"
  /\ ResetRetrieval
  /\ UNCHANGED <<conv_vars, store_vars, collector_vars, reranked, refine_vars, searches, search_query, reranker, query, query_analysis, llm_response,
                 is_relevant, attempts, max_attempts, final_response, sources,
                 conversation_context,
                 result, llm_calls, generate_runs>>

\* _generate_response asking the LLM although there are no documents
GenerateNoDocsAskingLlm ==
  /\ llm_calls' = [llm_calls EXCEPT !.answer = @ + 1]
  /\ \E out \in AnswerOutputs : llm_response' = out
  /\ pc' = "evaluate_response"
  /\ fault' = "none"
  /\ UNCHANGED <<sources, result>>

\* _generate_response without documents, lines 501-504
GenerateNoDocs ==
  /\ llm_response' = NO_DOCS_RESPONSE
  /\ pc' = "evaluate_response"
  /\ fault' = "none"
  /\ UNCHANGED <<sources, llm_calls, result>>

\* _generate_response with documents once the context is built, lines 554-571:
\* one LLM call that answers or raises
GenerateAnswer ==
  /\ llm_calls' = [llm_calls EXCEPT !.answer = @ + 1]
  /\ pc' = "evaluate_response"
  /\ UNCHANGED result
  /\ \/ \E out \in AnswerOutputs :
          /\ llm_response' = out
          /\ sources' = build_context_sources(retrieved_docs)
          /\ fault' = "none"
     \/ /\ llm_response' = "Error generating response: connection refused"
        /\ sources' = <<>>
        /\ fault' = "generation"

\* _generate_response, lines 493-571
GenerateResponse ==
  /\ pc = "generate_response"
  /\ generate_runs' = generate_runs + 1
  /\ IF Len(retrieved_docs) = 0
       THEN GenerateNoDocs
     ELSE IF BindCall(BUILD_CONTEXT_PARAMS, BUILD_CONTEXT_CALL_ARGS) # "ok"
       THEN /\ RaiseToQuerySync(BUILD_CONTEXT_TYPE_ERROR)
            /\ fault' = "context"
            /\ UNCHANGED <<llm_response, sources, llm_calls>>
     ELSE GenerateAnswer
  /\ UNCHANGED <<conv_vars, store_vars, collector_vars, reranked, refine_vars, searches, search_query, reranker, query, retrieved_docs, query_analysis, is_relevant, attempts,
                 max_attempts, final_response, conversation_context, retrieve_vars>>

\* _evaluate_response counting only the rejected passes
EvaluateAttemptsOnRejection(relevant, att) == IF relevant THEN att ELSE att + 1

\* the attempts value _evaluate_response returns, line 618
EvaluateAttempts(relevant, att) == att + 1

\* _evaluate_response, lines 573-618, and the conditional edge that follows it
EvaluateResponse ==
  /\ pc = "evaluate_response"
  /\ \E relevant \in {EvaluateIsRelevant(llm_response, query, retrieved_docs,
                                           attempts, max_attempts)} :
     \E att \in {EvaluateAttempts(relevant, attempts)} :
        /\ is_relevant' = relevant
        /\ attempts' = att
        /\ pc' = IF _should_refine(relevant, att, max_attempts) = "accept"
                   THEN "format_output" ELSE "refine_query"
  /\ fault' = "none"
  /\ UNCHANGED <<conv_vars, store_vars, collector_vars, reranked, refine_vars, searches, search_query, reranker, query, retrieved_docs, query_analysis, llm_response,
                 max_attempts, final_response, sources, conversation_context,
                 retrieve_vars, result, llm_calls, generate_runs>>

\* refinement_prompt of _refine_query, lines 624-629
RefinementPrompt(state_query) ==
  "The previous answer to this query wasn't satisfactory:\n        \""
    \o state_query
    \o "\"\n\n        Suggest an improved query that might get better results. Respond with just the refined query."

\* _refine_query without its except clause: a failed call leaves the graph
RefineQueryAborts ==
  /\ pc = "refine_query"
  /\ refinement_prompt' = RefinementPrompt(query)
  /\ llm_calls' = [llm_calls EXCEPT !.refine = @ + 1]
  /\ \/ /\ \E out \in RefinedOutputs : query' = Strip(out)
        /\ fault' = "none"
        /\ pc' = "retrieve_docs"
        /\ UNCHANGED result
     \/ /\ RaiseToQuerySync("refinement failed")
        /\ fault' = "refinement"
        /\ UNCHANGED query
  /\ UNCHANGED <<conv_vars, store_vars, collector_vars, reranked, original_query, searches, search_query, reranker, retrieved_docs, query_analysis, llm_response, is_relevant,
                 attempts, max_attempts, final_response, sources, conversation_context,
                 retrieve_vars, generate_runs>>

\* _refine_query, lines 620-645: one LLM call that answers or raises
RefineQuery ==
  /\ pc = "refine_query"
  /\ refinement_prompt' = RefinementPrompt(query)
  /\ llm_calls' = [llm_calls EXCEPT !.refine = @ + 1]
  /\ \/ \E out \in RefinedOutputs : query' = Strip(out) /\ fault' = "none"
     \/ query' = query /\ fault' = "refinement"
  /\ pc' = "retrieve_docs"
  /\ UNCHANGED <<conv_vars, store_vars, collector_vars, reranked, original_query, searches, search_query, reranker, retrieved_docs, query_analysis, llm_response, is_relevant,
                 attempts, max_attempts, final_response, sources, conversation_context,
                 retrieve_vars, result, generate_runs>>

\* _format_output, lines 647-654
FormatOutput ==
  /\ pc = "format_output"
  /\ final_response' = llm_response
  /\ sources' = sources
  /\ pc' = "END"
  /\ fault' = "none"
  /\ UNCHANGED <<conv_vars, store_vars, collector_vars, reranked, refine_vars, searches, search_query, reranker, query, retrieved_docs, query_analysis, llm_response,
                 is_relevant, attempts, max_attempts, conversation_context,
                 retrieve_vars, result, llm_calls, generate_runs>>

\* query_sync after graph.invoke returned, lines 746-754
QuerySyncReturn ==
  /\ pc = "END"
  /\ result' = QuerySyncReturnValue(final_response, llm_response, sources, attempts,
                                    query_analysis)
  /\ pc' = "done"
  /\ fault' = "none"
  /\ UNCHANGED <<conv_vars, store_vars, collector_vars, reranked, refine_vars, searches, search_query, reranker, state_vars, retrieve_vars, llm_calls, generate_runs>>

Next ==
  \/ \E req \in Requests : QuerySync(req.user_query, req.conv_context)
  \/ AnalyzeQuery
  \/ RetrieveBegin
  \/ RetrieveSearch
  \/ RetrieveFinish
  \/ GenerateResponse
  \/ EvaluateResponse
  \/ RefineQuery
  \/ FormatOutput
  \/ QuerySyncReturn

Spec == Init /\ [][Next]_vars

\* every stage completes before the next begins and no stage blocks (query_sync
\* is synchronous and each node returns), so a run never stops half-way
FairSpec == Spec /\ WF_vars(Next)

\* ------------------------------------------------------------------------
\* A run of AdaptiveRAG() as get_adaptive_rag builds it: the default
\* max_retrieval_attempts, which leaves room for two refinements
\* ------------------------------------------------------------------------
DEFAULT_MAX_RETRIEVAL_ATTEMPTS == 3

InitRefine ==
  /\ pc = "idle"
  /\ reranker \in BOOLEAN
  /\ max_attempts = DEFAULT_MAX_RETRIEVAL_ATTEMPTS
  /\ query = ""
  /\ retrieved_docs = <<>>
  /\ query_analysis = EMPTY_ANALYSIS
  /\ llm_response = ""
  /\ is_relevant = FALSE
  /\ attempts = 0
  /\ final_response = ""
  /\ sources = <<>>
  /\ conversation_context = ""
  /\ NoRetrieval
  /\ result = NoResult
  /\ llm_calls = [analysis |-> 0, answer |-> 0, refine |-> 0]
  /\ generate_runs = 0
  /\ fault = "none"
  /\ searches = <<>>
  /\ search_query = NoSearchQuery
  /\ NoRefinement
  /\ NoCollector
  /\ NoConversation

RefineSpec == InitRefine /\ [][Next]_vars

\* ------------------------------------------------------------------------
\* _evaluate_response applied to any state a caller can hand it
\* ------------------------------------------------------------------------
EvalResponses ==
  { "Use GET /users.",
    "I'm sorry, it is Not Found.",
    "I could not find that information",
    "It is NOT AVAILABLE here",
    "Error generating response: connection refused",
    NO_DOCS_RESPONSE }

EvalQueries ==
  { "list all api endpoints", "get user 42", "what are users",
    "get user\n\nContext: list all" }

EvalDocs ==
  { <<>>,
    RankedHits(AggregateSearch(<<>>,
      <<[chunk |-> CHOOSE c \in Chunks : c.text = "intro", dist |-> 8]>>, 0), K_DEFAULT) }

InitEval ==
  /\ pc = "evaluate_response"
  /\ reranker \in BOOLEAN
  /\ max_attempts \in 0..MaxAttemptsBound
  /\ attempts \in 0..(MaxAttemptsBound + 1)
  /\ query \in EvalQueries
  /\ retrieved_docs \in EvalDocs
  /\ llm_response \in EvalResponses
  /\ query_analysis = DEFAULT_ANALYSIS
  /\ is_relevant = FALSE
  /\ final_response = ""
  /\ sources = <<>>
  /\ conversation_context = query
  /\ NoRetrieval
  /\ result = NoResult
  /\ llm_calls = [analysis |-> 0, answer |-> 0, refine |-> 0]
  /\ generate_runs = 0
  /\ fault = "none"
  /\ searches = <<>>
  /\ search_query = NoSearchQuery
  /\ NoRefinement
  /\ NoCollector
  /\ NoConversation

NextEval == EvaluateResponse

EvalSpec == InitEval /\ [][NextEval]_vars

\* ------------------------------------------------------------------------
\* One retrieval pass (_retrieve_documents) against a fixed index snapshot
\* ------------------------------------------------------------------------
MaxExtraChunks == 2        \* identities in the index beyond K_COMPREHENSIVE

TwoDigits(i) == CharAt(DigitChars, (i \div 10) + 1) \o CharAt(DigitChars, (i % 10) + 1)

\* the first chunk of section "Auth" of document i
AggChunk(i) ==
  [text |-> "passage " \o TwoDigits(i), doc_id |-> "docs/" \o TwoDigits(i) \o ".json",
   start_line |-> "1", end_line |-> "4", section_path_str |-> "Auth",
   section_path_json |-> "[\"Auth\"]", commands_json |-> "[]"]

\* the second chunk of the same section of document i: another passage with
\* the same doc_id and section_path
SecondChunk(i) ==
  [AggChunk(i) EXCEPT !.text = "more of " \o TwoDigits(i),
                      !.start_line = "5", !.end_line = "9"]

\* lists col.query returns, in ascending distance order: nothing; as many
\* equally distant passages as any pass asks for; closer passages of further
\* documents and a closer sighting of document 1; repeat sightings of
\* documents 1 and 2 that are no closer; a closer sighting of the second
\* chunk of document 2
AggResults ==
  { <<>>,
    <<[chunk |-> SecondChunk(2), dist |-> 4]>>,
    [i \in 1..K_COMPREHENSIVE |-> [chunk |-> AggChunk(i), dist |-> 8]],
    [i \in 1..MaxExtraChunks |-> [chunk |-> AggChunk(K_COMPREHENSIVE + i), dist |-> 5]]
      \o <<[chunk |-> AggChunk(1), dist |-> 6]>>,
    <<[chunk |-> AggChunk(2), dist |-> 7], [chunk |-> SecondChunk(2), dist |-> 9],
      [chunk |-> SecondChunk(1), dist |-> 9]>> }

\* user queries of the passes: a specific one (k = 20) and a comprehensive one
\* (k = 50)
AggQueries == { "get user", "list api" }

\* the pass is entered with the state query_sync and _analyze_query leave; no
\* re-ranker is loaded
InitAgg ==
  /\ pc = "retrieve_docs"
  /\ reranker = FALSE
  /\ max_attempts = MaxAttemptsBound
  /\ query \in AggQueries
  /\ searches \in [1..Len(get_search_queries(query)) -> AggResults]
  /\ conversation_context = query
  /\ retrieved_docs = <<>>
  /\ query_analysis = DEFAULT_ANALYSIS
  /\ llm_response = ""
  /\ is_relevant = FALSE
  /\ attempts = 0
  /\ final_response = ""
  /\ sources = <<>>
  /\ NoRetrieval
  /\ result = NoResult
  /\ llm_calls = [analysis |-> 1, answer |-> 0, refine |-> 0]
  /\ generate_runs = 0
  /\ fault = "none"
  /\ search_query = NoSearchQuery
  /\ NoRefinement
  /\ NoCollector
  /\ NoConversation

\* one iteration of the search loop when the index answers from the snapshot
AggSearch ==
  /\ pc = "search_loop"
  /\ search_idx < Len(queries_to_search)
  /\ SearchIteration(searches[search_idx + 1])
  /\ UNCHANGED <<conv_vars, store_vars, collector_vars, reranked, refine_vars, searches, search_query, reranker, query, query_analysis, llm_response,
                 is_relevant, attempts, max_attempts, final_response, sources,
                 conversation_context, llm_calls, generate_runs>>

NextAgg ==
  \/ RetrieveBegin
  \/ AggSearch
  \/ RetrieveFinish

AggSpec == InitAgg /\ [][NextAgg]_vars

\* ------------------------------------------------------------------------
\* QueryDecomposer.decompose called on a query with an appended context
\* ------------------------------------------------------------------------
\* queries without the context marker
DecompQueries ==
  { "list api", "get user", "show it", "how to install", "what is auth", "Get get",
    "get user role name", "list user role name", " get user ", "", "explain login flow",
    "get a\n", "get\n\nContext", "list all api endpoints", "get user 42", "call user",
    "What Are users", "playlist of shows", "GET ALL users" }

\* context texts appended to the query ("" = nothing is appended)
DecompContexts == { "", "x", "User: api", "list all", "a\n\nContext: b" }

InitDecomp ==
  /\ pc = "decompose"
  /\ query \in DecompQueries
  /\ conversation_context \in DecompContexts
  /\ search_query = NoSearchQuery
  /\ NoRefinement
  /\ NoCollector
  /\ NoConversation
  /\ searches = <<>>
  /\ reranker = FALSE
  /\ max_attempts = MaxAttemptsBound
  /\ retrieved_docs = <<>>
  /\ query_analysis = EMPTY_ANALYSIS
  /\ llm_response = ""
  /\ is_relevant = FALSE
  /\ attempts = 0
  /\ final_response = ""
  /\ sources = <<>>
  /\ NoRetrieval
  /\ result = NoResult
  /\ llm_calls = [analysis |-> 0, answer |-> 0, refine |-> 0]
  /\ generate_runs = 0
  /\ fault = "none"

\* decompose(query + "\n\nContext: " + context), or decompose(query) when there
\* is no context
Decompose ==
  /\ pc = "decompose"
  /\ search_query' = decompose(IF conversation_context = ""
                                 THEN query
                                 ELSE query \o "\n\nContext: " \o conversation_context)
  /\ pc' = "decomposed"
  /\ UNCHANGED <<conv_vars, store_vars, collector_vars, reranked, refine_vars, searches, reranker, state_vars, retrieve_vars, result, llm_calls,
                 generate_runs, fault>>

NextDecomp == Decompose

DecompSpec == InitDecomp /\ [][NextDecomp]_vars

\* ------------------------------------------------------------------------
\* _rerank_documents called with any documents and top_k, the cross-encoder
\* being loaded
\* ------------------------------------------------------------------------
MaxDocs == 3

\* the hit the aggregation makes of the first chunk of document i, found at
\* distance 8 by the first search
RerankHit(i) ==
  HitValue(AggregateSearch(<<>>, <<[chunk |-> AggChunk(i), dist |-> 8]>>, 0)[1])

\* the lists of distinct hits
RerankDocuments ==
  { d \in UNION { [1..n -> { RerankHit(i) : i \in 1..MaxDocs }] : n \in 0..MaxDocs } :
      \A i, j \in 1..Len(d) : i < j => d[i] # d[j] }

InitRerank ==
  /\ pc = "rerank"
  /\ reranker = TRUE
  /\ retrieved_docs \in RerankDocuments
  /\ k \in 1..MaxDocs
  /\ max_attempts = MaxAttemptsBound
  /\ query = "get user"
  /\ conversation_context = query
  /\ query_analysis = DEFAULT_ANALYSIS
  /\ llm_response = ""
  /\ is_relevant = FALSE
  /\ attempts = 0
  /\ final_response = ""
  /\ sources = <<>>
  /\ is_comprehensive = FALSE
  /\ retrieval_query = ""
  /\ queries_to_search = <<>>
  /\ search_idx = 0
  /\ all_hits = <<>>
  /\ result = NoResult
  /\ llm_calls = [analysis |-> 0, answer |-> 0, refine |-> 0]
  /\ generate_runs = 0
  /\ fault = "none"
  /\ searches = <<>>
  /\ search_query = NoSearchQuery
  /\ NoRefinement
  /\ NoCollector
  /\ NoConversation

\* _rerank_documents(query, retrieved_docs, top_k=k), lines 248-294
Rerank ==
  /\ pc = "rerank"
  /\ \E predict \in PredictOutcomes(Len(retrieved_docs)) :
       /\ reranked' = _rerank_documents(retrieved_docs, k, reranker, predict)
       /\ fault' = IF reranker /\ Len(retrieved_docs) > 0 /\ ~predict.ok
                     THEN "rerank" ELSE "none"
  /\ pc' = "reranked"
  /\ UNCHANGED <<conv_vars, store_vars, collector_vars, refine_vars, searches, search_query, reranker,
                 state_vars, retrieve_vars, result, llm_calls, generate_runs>>

NextRerank == Rerank

RerankSpec == InitRerank /\ [][NextRerank]_vars

\* ------------------------------------------------------------------------
\* ConversationContextManager (conversation_context.py)
\* ------------------------------------------------------------------------
MaxTurns == 7              \* add_turn calls on one conversation
MaxHistoryBound == 2       \* small caps max_history_turns ranges over

\* xs[-n:]; -0 is 0, so xs[-0:] is the whole list
PySliceLast(xs, n) ==
  IF n = 0 THEN xs
  ELSE IF n < 0 THEN SubSeq(xs, 1 - n, Len(xs))
  ELSE SubSeq(xs, IF Len(xs) > n THEN Len(xs) - n + 1 ELSE 1, Len(xs))

\* a turn numbered by the length of the history
NewTurnNumberedByLength(role, content) ==
  [role |-> role, content |-> content, turn_id |-> Len(conversation_history)]

\* ConversationTurn(role, content, timestamp, turn_id=self.turn_counter)
NewTurn(role, content) ==
  [role |-> role, content |-> content, turn_id |-> turn_counter]

\* what callers say: a user question and two assistant answers
TurnInputs ==
  { [role |-> "user", content |-> "Show The Users"],
    [role |-> "assistant", content |-> "1. Alpha"] }

\* n copies of a text, halving n
RECURSIVE Repeat(_, _)
Repeat(text, n) ==
  IF n = 0 THEN ""
  ELSE IF n = 1 THEN text
  ELSE Repeat(text, n \div 2) \o Repeat(text, n - (n \div 2))

\* an assistant answer longer than any truncation limit: a numbered list
LongAnswer == Repeat("1. Alpha Step\n2. Beta Step\n", 31) \o "9. Omega"

\* '\n'.join(lines), halving the list
RECURSIVE JoinLines(_)
JoinLines(lines) ==
  IF Len(lines) = 0 THEN ""
  ELSE IF Len(lines) = 1 THEN lines[1]
  ELSE JoinLines(SubSeq(lines, 1, Len(lines) \div 2)) \o "\n"
         \o JoinLines(SubSeq(lines, Len(lines) \div 2 + 1, Len(lines)))

\* ', '.join(items)
RECURSIVE JoinComma(_)
JoinComma(items) ==
  IF Len(items) = 0 THEN ""
  ELSE IF Len(items) = 1 THEN items[1]
  ELSE items[1] \o ", " \o JoinComma(Tail(items))

\* the concatenation of a list of lists, halving the list
RECURSIVE Flatten(_)
Flatten(lists) ==
  IF Len(lists) = 0 THEN <<>>
  ELSE IF Len(lists) = 1 THEN lists[1]
  ELSE Flatten(SubSeq(lists, 1, Len(lists) \div 2))
         \o Flatten(SubSeq(lists, Len(lists) \div 2 + 1, Len(lists)))

\* text[:n]
Prefix(text, n) == IF Len(text) > n THEN SubSeq(text, 1, n) ELSE text

\* "User" if turn.role == "user" else "Assistant"
RoleLabel(turn) == IF turn.role = "user" THEN "User" ELSE "Assistant"

CONTEXT_WINDOW_SIZE == 10
RECENT_CONTEXT_TURNS == 3
RECENT_CONTEXT_CHARS == 200
MAX_RECENT_TURNS == 6
OLDER_TURNS_LOOKED_AT == 5
SUMMARY_CHARS == 300
MAX_SUMMARIES == 3
MAX_KEY_TOPICS == 8
RECENT_TURN_CHARS == 800
ENTITY_TEXT_CHARS == 500
MAX_ENTITIES == 5

\* get_context_window(include_system=False), lines 97-136
get_context_window(history) ==
  IF Len(history) = 0 THEN ""
  ELSE LET context_turns == PySliceLast(history, CONTEXT_WINDOW_SIZE)
       IN JoinLines(Flatten([i \in 1..Len(context_turns) |->
                    <<RoleLabel(context_turns[i]) \o ":", context_turns[i].content, "">>]))

\* get_recent_context(num_turns=3), lines 138-157
get_recent_context(history) ==
  IF Len(history) = 0 THEN ""
  ELSE LET recent == PySliceLast(history, RECENT_CONTEXT_TURNS)
       IN JoinLines([i \in 1..Len(recent) |->
            RoleLabel(recent[i]) \o ": " \o Prefix(recent[i].content, RECENT_CONTEXT_CHARS)
              \o "..."])

\* the characters of [A-Z] and of [a-zA-Z]
UpperSet == { CharAt(UpperChars, i) : i \in 1..Len(UpperChars) }

LetterSet == UpperSet \cup { CharAt(LowerChars, i) : i \in 1..Len(LowerChars) }

IsUpper(c) == c \in UpperSet

IsLetter(c) == c \in LetterSet

\* where the run [a-zA-Z]* that starts at i ends
LetterRunEnd(t, i) ==
  CHOOSE e \in i..Len(t) :
    /\ \A m \in i..e : IsLetter(CharAt(t, m))
    /\ e = Len(t) \/ ~IsLetter(CharAt(t, e + 1))

\* \s+[A-Z] right after position e: the position of the capital, 0 if none
NextCapital(t, e) ==
  IF e < Len(t) /\ IsSpace(CharAt(t, e + 1))
    THEN LET w == CHOOSE x \in (e + 1)..Len(t) :
                    /\ \A m \in (e + 1)..x : IsSpace(CharAt(t, m))
                    /\ x = Len(t) \/ ~IsSpace(CharAt(t, x + 1))
         IN IF w < Len(t) /\ IsUpper(CharAt(t, w + 1)) THEN w + 1 ELSE 0
    ELSE 0

\* where the match of [A-Z][a-zA-Z]*(?:\s+[A-Z][a-zA-Z]*)*\b that starts at i
\* ends, 0 if there is none: as many capitalised words as possible, giving
\* words back until the last one ends at a word boundary
RECURSIVE EntityMatchEnd(_, _)
EntityMatchEnd(t, i) ==
  LET e == LetterRunEnd(t, i)
      j == NextCapital(t, e)
      longer == IF j = 0 THEN 0 ELSE EntityMatchEnd(t, j)
  IN IF longer # 0 THEN longer
     ELSE IF e = Len(t) \/ ~IsWordChar(CharAt(t, e + 1)) THEN e
     ELSE 0

\* re.findall(r'\b[A-Z][a-zA-Z]*(?:\s+[A-Z][a-zA-Z]*)*\b', t): the matches
\* left to right, each as <<first, last>>; a capital inside an earlier match
\* starts no match
FindCapitalizedPhrases(t) ==
  LET matches == { <<i, EntityMatchEnd(t, i)>> :
                     i \in { x \in 1..Len(t) :
                               /\ IsUpper(CharAt(t, x))
                               /\ x = 1 \/ ~IsWordChar(CharAt(t, x - 1)) } }
      heads == { m \in matches :
                   m[2] # 0 /\ ~\E h \in matches : h[1] < m[1] /\ h[2] >= m[1] }
  IN [p \in 1..Cardinality(heads) |->
        LET m == CHOOSE x \in heads : Cardinality({h \in heads : h[1] <= x[1]}) = p
        IN SubSeq(t, m[1], m[2])]

\* _extract_key_entities, lines 212-236
_extract_key_entities(text) ==
  LET t == Prefix(text, ENTITY_TEXT_CHARS)
      combined == FindCapitalizedPhrases(t) \o ScanQuoted(t).phrases
      long_enough(item) == Len(item) > 2
  IN Take(DedupLower(SelectSeq(combined, long_enough), {}), MAX_ENTITIES)

\* the summary lines of _compact_context for the older turns, lines 375-410
OlderSummary(older_turns) ==
  LET looked_at == PySliceLast(older_turns, OLDER_TURNS_LOOKED_AT)
      key_points == Flatten([i \in 1..Len(looked_at) |->
                               _extract_key_entities(looked_at[i].content)])
      is_answer(i) == looked_at[i].role = "assistant" /\ Len(looked_at[i].content) > 0
      answers == { i \in 1..Len(looked_at) : is_answer(i) }
      context_summaries ==
        [p \in 1..Cardinality(answers) |->
           LET i == CHOOSE x \in answers : Cardinality({a \in answers : a <= x}) = p
           IN "Previous response " \o CharAt(DigitChars, i + 1) \o ": "
                \o Prefix(looked_at[i].content, SUMMARY_CHARS)
                \o (IF Len(looked_at[i].content) > SUMMARY_CHARS THEN "..." ELSE "")]
      unique_points == DedupLower(key_points, {})
  IN IF Len(key_points) = 0 /\ Len(context_summaries) = 0 THEN <<>>
     ELSE <<"[PREVIOUS CONTEXT SUMMARY]">>
            \o (IF Len(unique_points) > 0
                  THEN <<"Key topics discussed: "
                           \o JoinComma(Take(unique_points, MAX_KEY_TOPICS))>>
                  ELSE <<>>)
            \o Take(context_summaries, MAX_SUMMARIES)
            \o <<"">>

\* a turn of the recent window that is not the last one, cut at 800 characters
RecentLineTruncated(turn) ==
  RoleLabel(turn) \o ": "
    \o (IF Len(turn.content) > RECENT_TURN_CHARS
          THEN SubSeq(turn.content, 1, RECENT_TURN_CHARS) \o "..."
          ELSE turn.content)

\* a recent window that cuts every turn, the last one too
RecentLinesAllTruncated(recent) ==
  [idx \in 1..Len(recent) |-> RecentLineTruncated(recent[idx])]

\* the lines of the recent window, lines 412-427
RecentLines(recent) ==
  [idx \in 1..Len(recent) |->
     IF idx = Len(recent)
       THEN RoleLabel(recent[idx]) \o ": " \o recent[idx].content
       ELSE RecentLineTruncated(recent[idx])]

\* a compaction without the early return for short conversations
CompactContextAlways(history) ==
  IF Len(history) = 0 THEN ""
  ELSE LET recent_start == IF Len(history) > MAX_RECENT_TURNS
                             THEN Len(history) - MAX_RECENT_TURNS ELSE 0
       IN JoinLines(OlderSummary(SubSeq(history, 1, recent_start))
                      \o <<"[RECENT CONVERSATION]">>
                      \o RecentLines(SubSeq(history, recent_start + 1, Len(history))))

\* _compact_context(max_recent_turns=6), lines 338-432
_compact_context(history) ==
  IF Len(history) = 0 THEN ""
  ELSE IF Len(history) <= MAX_RECENT_TURNS THEN get_context_window(history)
  ELSE LET recent_start == Len(history) - MAX_RECENT_TURNS
       IN JoinLines(OlderSummary(SubSeq(history, 1, recent_start))
                      \o <<"[RECENT CONVERSATION]">>
                      \o RecentLines(SubSeq(history, recent_start + 1, Len(history))))

\* get_context_for_rag(use_compact, use_llm_compaction=False), lines 434-460
get_context_for_rag(history, use_compact) ==
  [recent_context |-> get_recent_context(history),
   full_context |-> IF use_compact THEN _compact_context(history)
                    ELSE get_context_window(history),
   conversation_id |-> conversation_id,
   turn_count |-> Len(history)]

\* the orchestrator is not part of these runs
OrchestratorIdle ==
  /\ pc = "idle"
  /\ reranker = FALSE
  /\ max_attempts = MaxAttemptsBound
  /\ query = ""
  /\ retrieved_docs = <<>>
  /\ query_analysis = EMPTY_ANALYSIS
  /\ llm_response = ""
  /\ is_relevant = FALSE
  /\ attempts = 0
  /\ final_response = ""
  /\ sources = <<>>
  /\ conversation_context = ""
  /\ NoRetrieval
  /\ result = NoResult
  /\ llm_calls = [analysis |-> 0, answer |-> 0, refine |-> 0]
  /\ generate_runs = 0
  /\ fault = "none"
  /\ searches = <<>>
  /\ search_query = NoSearchQuery
  /\ NoRefinement
  /\ NoCollector

\* ConversationContextManager(max_history_turns=...)
InitConv ==
  /\ OrchestratorIdle
  /\ NoStore
  /\ conversation_history = <<>>
  /\ turn_counter = 0
  /\ max_history_turns \in (0..MaxHistoryBound) \cup {DEFAULT_MAX_HISTORY_TURNS}
  /\ conversation_id = SOME_CONVERSATION_ID
  /\ added = <<>>
  /\ callers = [t \in Callers |-> NotCalling]
  /\ rag_context = NoContext

\* add_turn, lines 70-95
AddTurn(role, content) ==
  /\ turn_counter < MaxTurns
  /\ \E turn \in {NewTurn(role, content)} :
       /\ turn_counter' = turn_counter + 1
       /\ conversation_history' =
            IF Len(conversation_history) + 1 > max_history_turns
              THEN PySliceLast(Append(conversation_history, turn), max_history_turns)
              ELSE Append(conversation_history, turn)
       /\ added' = Append(added, turn)
  /\ rag_context' = NoContext
  /\ UNCHANGED <<rag_vars, collector_vars, store_vars, config_vars, callers>>

\* a caller asks for the context: the method reads the conversation only
\* a get_context_for_rag whose compaction also cuts the stored history down to
\* the recent window
GetContextForRagTrimming(use_compact) ==
  /\ rag_context.calls = 0
  /\ \E ctx \in {get_context_for_rag(conversation_history, use_compact)} :
       rag_context' = [calls |-> 1,
                       use_compact |-> use_compact,
                       recent_context |-> ctx.recent_context,
                       full_context |-> ctx.full_context,
                       conversation_id |-> ctx.conversation_id,
                       turn_count |-> ctx.turn_count]
  /\ conversation_history' = IF use_compact
                               THEN PySliceLast(conversation_history, MAX_RECENT_TURNS)
                               ELSE conversation_history
  /\ UNCHANGED <<rag_vars, collector_vars, store_vars, turn_counter, config_vars, added, callers>>

GetContextForRag(use_compact) ==
  /\ rag_context.calls = 0
  /\ \E ctx \in {get_context_for_rag(conversation_history, use_compact)} :
       rag_context' = [calls |-> 1,
                       use_compact |-> use_compact,
                       recent_context |-> ctx.recent_context,
                       full_context |-> ctx.full_context,
                       conversation_id |-> ctx.conversation_id,
                       turn_count |-> ctx.turn_count]
  /\ UNCHANGED <<rag_vars, collector_vars, store_vars, conversation_history, turn_counter, config_vars, added, callers>>

MaxShortAnswerTurns == 2   \* the short answer is given among the first turns only

\* what the n-th add_turn may be called with: the user question, the long
\* answer, and early in the conversation the short answer
ConvInputs(n) ==
  { t \in TurnInputs : t.role = "user" \/ n < MaxShortAnswerTurns }
    \cup {[role |-> "assistant", content |-> LongAnswer]}

NextConv ==
  \/ \E t \in ConvInputs(turn_counter) : AddTurn(t.role, t.content)
  \/ \E use_compact \in BOOLEAN : GetContextForRag(use_compact)

ConvSpec == InitConv /\ [][NextConv]_vars

\* ------------------------------------------------------------------------
\* add_turn called by several request threads on one conversation: the
\* interpreter may switch threads between any two reads or writes of the
\* object's attributes, and add_turn takes no lock
\* ------------------------------------------------------------------------
MaxConcurrentCalls == 3    \* add_turn calls of all threads together

\* turn_id=self.turn_counter while the ConversationTurn is built, lines 80-85
CreateTurn(t, role, content) ==
  /\ callers[t].at = "idle"
  /\ Len(added) < MaxConcurrentCalls
  /\ callers' = [callers EXCEPT ![t].at = "load", ![t].turn = NewTurn(role, content)]
  /\ added' = Append(added, NewTurn(role, content))
  /\ UNCHANGED <<rag_vars, collector_vars, store_vars, conversation_history, turn_counter, config_vars, rag_context>>

\* self.turn_counter += 1, line 86: the read
LoadCounter(t) ==
  /\ callers[t].at = "load"
  /\ callers' = [callers EXCEPT ![t].at = "store", ![t].loaded = turn_counter]
  /\ UNCHANGED <<rag_vars, collector_vars, store_vars, conversation_history, turn_counter, config_vars, added,
                 rag_context>>

\* self.turn_counter += 1, line 86: the write
StoreCounter(t) ==
  /\ callers[t].at = "store"
  /\ turn_counter' = callers[t].loaded + 1
  /\ callers' = [callers EXCEPT ![t].at = "append"]
  /\ UNCHANGED <<rag_vars, collector_vars, store_vars, conversation_history, config_vars, added, rag_context>>

\* self.conversation_history.append(turn), line 87
AppendTurn(t) ==
  /\ callers[t].at = "append"
  /\ conversation_history' = Append(conversation_history, callers[t].turn)
  /\ callers' = [callers EXCEPT ![t].at = "check"]
  /\ rag_context' = NoContext
  /\ UNCHANGED <<rag_vars, collector_vars, store_vars, turn_counter, config_vars, added>>

\* if len(self.conversation_history) > self.max_history_turns, line 90
CheckLength(t) ==
  /\ callers[t].at = "check"
  /\ callers' = [callers EXCEPT ![t].at =
                   IF Len(conversation_history) > max_history_turns THEN "slice" ELSE "idle"]
  /\ UNCHANGED <<rag_vars, collector_vars, store_vars, conversation_history, turn_counter, config_vars, added,
                 rag_context>>

\* line 91, right-hand side: the slice is a new list
SliceHistory(t) ==
  /\ callers[t].at = "slice"
  /\ callers' = [callers EXCEPT ![t].at = "assign",
                                ![t].sliced = PySliceLast(conversation_history, max_history_turns)]
  /\ UNCHANGED <<rag_vars, collector_vars, store_vars, conversation_history, turn_counter, config_vars, added,
                 rag_context>>

\* line 91, the assignment to self.conversation_history
AssignHistory(t) ==
  /\ callers[t].at = "assign"
  /\ conversation_history' = callers[t].sliced
  /\ callers' = [callers EXCEPT ![t].at = "idle", ![t].sliced = <<>>]
  /\ rag_context' = NoContext
  /\ UNCHANGED <<rag_vars, collector_vars, store_vars, turn_counter, config_vars, added>>

NextConc ==
  \E t \in Callers :
    \/ \E i \in TurnInputs : CreateTurn(t, i.role, i.content)
    \/ LoadCounter(t)
    \/ StoreCounter(t)
    \/ AppendTurn(t)
    \/ CheckLength(t)
    \/ SliceHistory(t)
    \/ AssignHistory(t)

ConcSpec == InitConv /\ [][NextConc]_vars

\* ---------------------------------------------------------------------------
\* ConversationStore: the conversations by id. A conversation is named by the
\* number of its creation; 0 stands for no id (None).

MaxConversations == 4
MaxCleanups == 2
MaxCap == 2
MaxStoreTurns == 1

IdsOf(ids) == { ids[i] : i \in 1..Len(ids) }

\* the ids without those of gone, in the same order
Without(ids, gone) ==
  LET stays(id) == id \notin gone
  IN SelectSeq(ids, stays)

\* xs[:-n] for n >= 0: xs[:-0] is xs[:0], the empty list
PyDropLast(xs, n) ==
  IF n = 0 \/ Len(xs) <= n THEN <<>> ELSE SubSeq(xs, 1, Len(xs) - n)

\* the managers without those held under the keys of gone
ManagersWithout(held, gone) ==
  LET stays(manager) == manager.key \notin gone
  IN SelectSeq(held, stays)

\* get_or_create_conversation, lines 474-493
GetOrCreateConversation(id) ==
  /\ IF id # 0 /\ id \in IdsOf(conversations)
       THEN /\ last_used' = Append(Without(last_used, {id}), id)
            /\ UNCHANGED <<conversations, created, managers>>
       ELSE /\ created < MaxConversations
            /\ created' = created + 1
            /\ conversations' = Append(conversations, created + 1)
            /\ managers' = Append(managers, [key |-> created + 1,
                                             conversation_id |-> created + 1,
                                             turn_counter |-> 0])
            /\ last_used' = Append(last_used, created + 1)
  /\ UNCHANGED <<rag_vars, collector_vars, conv_vars, cleanup>>

\* delete_conversation of a conversation the store holds, lines 506-520
DeleteConversation(id) ==
  /\ id \in IdsOf(conversations)
  /\ conversations' = Without(conversations, {id})
  /\ managers' = ManagersWithout(managers, {id})
  /\ last_used' = Without(last_used, {id})
  /\ UNCHANGED <<rag_vars, collector_vars, conv_vars, created, cleanup>>

\* cleanup_old_conversations, lines 536-548
CleanupOldConversations(max_conversations) ==
  /\ cleanup.calls < MaxCleanups
  /\ cleanup' = [calls |-> cleanup.calls + 1, max_conversations |-> max_conversations]
  /\ \E to_delete \in {IF Len(conversations) > max_conversations
                         THEN IdsOf(PyDropLast(conversations, max_conversations))
                         ELSE {}} :
       /\ conversations' = Without(conversations, to_delete)
       /\ managers' = ManagersWithout(managers, to_delete)
       /\ last_used' = Without(last_used, to_delete)
  /\ UNCHANGED <<rag_vars, collector_vars, conv_vars, created>>

\* add_turn on the manager the store holds under key id, lines 70-95: of the
\* manager only the turn counter is kept here
StoreAddTurn(id) ==
  /\ \E i \in 1..Len(managers) :
       /\ managers[i].key = id
       /\ managers[i].turn_counter < MaxStoreTurns
       /\ managers' = [managers EXCEPT ![i].turn_counter = @ + 1]
  /\ UNCHANGED <<rag_vars, collector_vars, conv_vars, conversations, created, last_used,
                 cleanup>>

\* clear_history on the manager the store holds under key id, lines 205-210:
\* _generate_conversation_id gives the manager a new id
ClearHistory(id) ==
  /\ created < MaxConversations
  /\ \E i \in 1..Len(managers) :
       /\ managers[i].key = id
       /\ managers' = [managers EXCEPT ![i].turn_counter = 0,
                                       ![i].conversation_id = created + 1]
  /\ created' = created + 1
  /\ UNCHANGED <<rag_vars, collector_vars, conv_vars, conversations, last_used, cleanup>>

InitStore ==
  /\ OrchestratorIdle
  /\ NoConversation

NextStore ==
  \/ \E id \in 0..MaxConversations : GetOrCreateConversation(id)
  \/ \E id \in 1..MaxConversations : DeleteConversation(id)
  \/ \E max_conversations \in 0..MaxCap : CleanupOldConversations(max_conversations)
  \/ \E id \in 1..MaxConversations : StoreAddTurn(id)
  \/ \E id \in 1..MaxConversations : ClearHistory(id)

StoreSpec == InitStore /\ [][NextStore]_vars

\* ---------------------------------------------------------------------------
\* ParameterCollector (parameter_collector.py) with the tool definitions of
\* tool_definitions.py. A dict is a function on its keys.

MaxCollectorCalls == 3

PY_NONE == "<None>"

\* three of the TOOL_DEFINITIONS: the parameters with their required flag
TOOL_DEFINITIONS ==
  [list_tasks |-> <<[name |-> "status", required |-> FALSE]>>,
   get_task |-> <<[name |-> "task_id", required |-> TRUE]>>,
   update_task_status |-> <<[name |-> "task_id", required |-> TRUE],
                            [name |-> "status", required |-> TRUE]>>]

ToolNames == DOMAIN TOOL_DEFINITIONS \cup {"no_such_tool"}

ParamNames == {"task_id", "status"}

ParamValues == {"task1", "completed", PY_NONE}

\* the dicts an extraction can produce
ParamDicts == UNION { [keys -> ParamValues] : keys \in SUBSET ParamNames }

\* a.update(b)
DictUpdate(a, b) ==
  [p \in DOMAIN a \cup DOMAIN b |-> IF p \in DOMAIN b THEN b[p] ELSE a[p]]

\* validate_parameters treating a None value as a value
ValidateKeysOnly(parameters, provided) ==
  LET is_missing(param) == param.required /\ param.name \notin DOMAIN provided
      missing_params == SelectSeq(parameters, is_missing)
      missing == [i \in 1..Len(missing_params) |-> missing_params[i].name]
  IN [is_valid |-> Len(missing) = 0, missing |-> missing]

\* ToolDefinition.validate_parameters, tool_definitions.py lines 51-63
validate_parameters(parameters, provided) ==
  LET is_missing(param) ==
        /\ param.required
        /\ param.name \notin DOMAIN provided \/ provided[param.name] = PY_NONE
      missing_params == SelectSeq(parameters, is_missing)
      missing == [i \in 1..Len(missing_params) |-> missing_params[i].name]
  IN [is_valid |-> Len(missing) = 0, missing |-> missing]

\* the call just made
Returns(op, all_parameters_available, parameters) ==
  returned' = [op |-> op, calls |-> returned.calls + 1,
               all_parameters_available |-> all_parameters_available,
               parameters |-> parameters]

\* start_collection, lines 26-70
StartCollection(tool_name, provided_parameters) ==
  /\ returned.calls < MaxCollectorCalls
  /\ IF tool_name \notin DOMAIN TOOL_DEFINITIONS
       THEN /\ Returns("start_collection", FALSE, provided_parameters)
            /\ UNCHANGED <<pending_tool, collected_parameters, missing_parameters>>
       ELSE \E v \in {validate_parameters(TOOL_DEFINITIONS[tool_name], provided_parameters)} :
              IF v.is_valid
                THEN /\ Returns("start_collection", TRUE, provided_parameters)
                     /\ UNCHANGED <<pending_tool, collected_parameters, missing_parameters>>
                ELSE /\ pending_tool' = tool_name
                     /\ collected_parameters' = provided_parameters
                     /\ missing_parameters' = v.missing
                     /\ Returns("start_collection", FALSE, provided_parameters)
  /\ UNCHANGED <<rag_vars, conv_vars, store_vars>>

\* add_parameters, lines 72-117
AddParameters(extracted_params) ==
  /\ returned.calls < MaxCollectorCalls
  /\ IF pending_tool = "" \/ pending_tool \notin DOMAIN TOOL_DEFINITIONS
       THEN /\ Returns("add_parameters", FALSE, extracted_params)
            /\ UNCHANGED <<collected_parameters, missing_parameters>>
       ELSE \E merged \in {DictUpdate(collected_parameters, extracted_params)} :
            \E v \in {validate_parameters(TOOL_DEFINITIONS[pending_tool], merged)} :
              /\ collected_parameters' = merged
              /\ missing_parameters' = IF v.is_valid THEN missing_parameters ELSE v.missing
              /\ Returns("add_parameters", v.is_valid, extracted_params)
  /\ UNCHANGED <<rag_vars, conv_vars, store_vars, pending_tool>>

\* reset, lines 127-133
ResetCollector ==
  /\ returned.calls < MaxCollectorCalls
  /\ pending_tool' = ""
  /\ collected_parameters' = EmptyDict
  /\ missing_parameters' = <<>>
  /\ Returns("reset", FALSE, EmptyDict)
  /\ UNCHANGED <<rag_vars, conv_vars, store_vars>>

InitCollector ==
  /\ OrchestratorIdle
  /\ NoConversation

NextCollector ==
  \/ \E tool_name \in ToolNames : \E provided \in ParamDicts :
       StartCollection(tool_name, provided)
  \/ \E extracted \in ParamDicts : AddParameters(extracted)
  \/ ResetCollector

CollectorSpec == InitCollector /\ [][NextCollector]_vars

TypeOK ==
  /\ pc \in {"idle", "analyze_query", "retrieve_docs", "search_loop", "generate_response",
             "evaluate_response", "refine_query", "format_output", "END", "done",
             "decompose", "decomposed", "rerank", "reranked"}
  /\ attempts \in Nat
  /\ is_relevant \in BOOLEAN

\* ------------------------------------------------------------------------
\* Properties
\* ------------------------------------------------------------------------
AtLeastOne(n) == IF n < 1 THEN 1 ELSE n

TotalLlmCalls == llm_calls.analysis + llm_calls.answer + llm_calls.refine

InRetrieve == pc \in {"retrieve_docs", "search_loop"}

\* C1 as stated: a run never executes GENERATE more than max_attempts times.
\* Fails for max_attempts = 0, where the single pass still runs GENERATE once.
C1_GenerateWithinMaxAttempts == generate_runs <= max_attempts

\* C1 (amended): every run of query_sync eventually reaches its terminal state,
\* after at most max(1, max_attempts) executions of GENERATE, whatever the LLM,
\* the index and the re-ranker do.
C1_Terminates ==
  /\ <>(pc = "done")
  /\ [](generate_runs <= AtLeastOne(max_attempts))

\* a finished run that was rejected until the attempt cap: GENERATE ran
\* max_attempts (> 1) times
C1_Witness ==
  pc = "done" /\ max_attempts > 1 /\ generate_runs = max_attempts

C3_AlwaysReturnsResult ==
  pc = "done" =>
    /\ {"response", "sources", "attempts"} \subseteq DOMAIN result
    /\ "raised" \notin DOMAIN result

\* query_sync has returned after a failure it had to catch itself
C3_Witness ==
  pc = "done" /\ fault = "context" /\ "error" \in DOMAIN result /\ result.sources = <<>>

\* C4 as stated: GENERATE with documents calls the answer LLM exactly once and
\* goes on to EVALUATE with the LLM's output and the context's sources.
\* Fails: build_context(docs) is called without its hits argument and raises.
C4_GenerateCallsLlmOnce ==
  [][(pc = "generate_response" /\ retrieved_docs # <<>>) =>
       /\ llm_calls'.answer = llm_calls.answer + 1
       /\ pc' = "evaluate_response"
       /\ (fault' = "none" => /\ llm_response' \in AnswerOutputs
                              /\ sources' = build_context_sources(retrieved_docs))]_vars

\* C5: GENERATE without documents makes no LLM call and sets llm_response to
\* the fixed "I could not find relevant information ..." message.
C5_NoDocsShortCircuit ==
  [][(pc = "generate_response" /\ retrieved_docs = <<>>) =>
       /\ llm_calls' = llm_calls
       /\ llm_response' =
            "I could not find relevant information to answer your question. Please rephrase your query."
       /\ pc' = "evaluate_response"]_vars

\* GENERATE has just short-circuited on an empty hit list
C5_Witness ==
  /\ pc = "evaluate_response"
  /\ retrieved_docs = <<>>
  /\ generate_runs = 1
  /\ llm_calls.answer = 0
  /\ Contains("could not find relevant information", llm_response)

\* is_negative as the specification words it
C6_IsNegative(response) ==
  \E phrase \in { "could not find", "not found", "don't have", "not available",
                  "no information", "unable to", "i'm sorry", "i apologize" } :
    Contains(phrase, Lower(response))

\* C6: EVALUATE entered with attempts < max_attempts sets is_relevant to
\* (not is_negative and has_docs) for a comprehensive cleaned query and to
\* (not is_negative) otherwise.
C6_EvaluateRule ==
  [][(pc = "evaluate_response" /\ attempts < max_attempts) =>
       is_relevant' =
         IF is_comprehensive_query(CleanQuery(query))
           THEN ~C6_IsNegative(llm_response) /\ retrieved_docs # <<>>
           ELSE ~C6_IsNegative(llm_response)]_vars

\* EVALUATE ran below the cap on a comprehensive query with a confident answer
\* but no documents: the strict rule rejected it
C6_Witness ==
  /\ pc = "refine_query"
  /\ attempts < max_attempts
  /\ is_comprehensive_query(CleanQuery(query))
  /\ ~C6_IsNegative(llm_response)
  /\ retrieved_docs = <<>>
  /\ ~is_relevant

\* C7: EVALUATE entered with attempts >= max_attempts sets is_relevant to
\* true, whatever the response, the documents and the query.
C7_ForcedAcceptance ==
  [][(pc = "evaluate_response" /\ attempts >= max_attempts) => is_relevant']_vars

\* EVALUATE ran at the cap on a negative answer to a comprehensive query
\* without documents and accepted it
C7_Witness ==
  /\ pc = "format_output"
  /\ attempts > max_attempts
  /\ max_attempts > 0
  /\ is_relevant
  /\ C6_IsNegative(llm_response)
  /\ is_comprehensive_query(CleanQuery(query))
  /\ retrieved_docs = <<>>

\* C8: attempts never decreases within a run: EVALUATE adds exactly 1, accepted
\* or not; RETRIEVE, GENERATE, REFINE and FINALIZE leave it alone; ANALYZE sets
\* it to 0 at the start.
C8_AttemptsMonotone ==
  [][/\ attempts' >= attempts
     /\ (pc = "evaluate_response" => attempts' = attempts + 1)
     /\ (pc = "analyze_query" => attempts' = 0)
     /\ (pc \in {"retrieve_docs", "search_loop", "generate_response", "refine_query",
                 "format_output", "END"} => attempts' = attempts)]_vars

\* a finished run whose EVALUATE ran twice (one rejection, then the cap)
C8_Witness ==
  pc = "done" /\ attempts = 2 /\ generate_runs = 2 /\ llm_calls.refine = 1

\* C9: a failure anywhere in a retrieval pass sets retrieved_docs to the empty
\* list and the run goes on to GENERATE; it never ends the run.
C9_RetrievalFailureRecovered ==
  [][/\ (InRetrieve /\ fault' = "retrieval") =>
          /\ retrieved_docs' = <<>>
          /\ pc' = "generate_response"
     /\ InRetrieve => (pc' \in {"search_loop", "generate_response"} /\ result' = result)]_vars

\* the retrieval pass of a second attempt has just failed: GENERATE is next,
\* with no documents
C9_Witness ==
  pc = "generate_response" /\ fault = "retrieval" /\ retrieved_docs = <<>> /\ generate_runs = 1

\* C11: a failed refinement call leaves the query as it was and the run goes
\* on to RETRIEVE; REFINE never ends the run.
C11_RefinementFailureRecovered ==
  [][pc = "refine_query" =>
       /\ pc' = "retrieve_docs"
       /\ result' = result
       /\ (fault' = "refinement" => query' = query)]_vars

\* the refinement call of a follow-up question has just failed: RETRIEVE is
\* next, with the query still carrying its context suffix
C11_Witness ==
  /\ pc = "retrieve_docs"
  /\ fault = "refinement"
  /\ llm_calls.refine = 1
  /\ Contains(CONTEXT_MARKER, query)

\* the identity key of a raw hit
IdentityOf(chunk) ==
  chunk.doc_id \o "_" \o PyStrList(JsonLoadsList(chunk.section_path_json).value)

\* the sightings of the pass so far: identity, 0-based position of the
\* sub-query whose search returned it, and distance (a search returns at most
\* n_results = k hits)
Seen ==
  { <<IdentityOf(searches[q[1]][q[2]].chunk), q[1] - 1, searches[q[1]][q[2]].dist>>
    : q \in { p \in (1..search_idx) \X (1..k) : p[2] <= Len(searches[p[1]]) } }

\* C12: during and after the search loop every sighted identity has one
\* aggregated hit, and that hit's combined_score is the minimum of
\* distance + position (in hundredths) over the sightings of the identity.
C12_CombinedScoreIsMinimum ==
  pc = "search_loop" =>
    LET seen == Seen
    IN /\ \A s \in seen : \E n \in 1..Len(all_hits) : all_hits[n].id = s[1]
       /\ \A n \in 1..Len(all_hits) :
            LET scores == { s[3] + s[2] : s \in { t \in seen : t[1] = all_hits[n].id } }
            IN /\ all_hits[n].combined_score \in scores
               /\ \A x \in scores : all_hits[n].combined_score <= x

\* the loop is over and an identity first seen by sub-query 0 at distance 0.08
\* was seen again by a later sub-query, closer: its score is that of the later
\* sighting
C12_Witness ==
  /\ pc = "search_loop" /\ search_idx = Len(queries_to_search)
  /\ \E n \in 1..Len(all_hits) :
       /\ all_hits[n].search_order = 0
       /\ all_hits[n].distance = 6
       /\ all_hits[n].combined_score < 8

\* the sub-query positions the pass records for an aggregated hit:
\* search_order[hit_id], set at the first sighting and not touched by a repeat
FoundInSearches(hit) == { hit.search_order }

\* C13: every aggregated hit records exactly the set of sub-query positions
\* whose search returned its identity. Fails at the first repeat sighting:
\* the pass keeps no found_in_searches and search_order holds the first
\* position only.
C13_FoundInSearchesComplete ==
  pc = "search_loop" =>
    LET seen == Seen
    IN \A n \in 1..Len(all_hits) :
         FoundInSearches(all_hits[n]) = { s[2] : s \in { t \in seen : t[1] = all_hits[n].id } }

\* the identity of a hit of the list a pass hands on
DocIdentity(doc) == doc.source \o "_" \o PyStrList(doc.metadata.section_path)

\* C14: neither the aggregate nor the hit list a pass produces holds two hits
\* with the same identity.
C14_NoDuplicateIdentity ==
  /\ pc = "search_loop" =>
        \A i, j \in 1..Len(all_hits) : i # j => all_hits[i].id # all_hits[j].id
  /\ LET ids == [i \in 1..Len(retrieved_docs) |-> DocIdentity(retrieved_docs[i])]
     IN \A i, j \in 1..Len(ids) : i # j => ids[i] # ids[j]

\* a finished pass in which three searches returned a passage of docs/01.json
\* and the list handed on has it among other hits
C14_Witness ==
  /\ pc = "generate_response" /\ fault = "none"
  /\ Len(retrieved_docs) > 1
  /\ \E i \in 1..Len(retrieved_docs) : retrieved_docs[i].source = "docs/01.json"
  /\ Cardinality({ p \in (1..Len(searches)) \X (1..3) :
                     /\ p[2] <= Len(searches[p[1]])
                     /\ searches[p[1]][p[2]].chunk.doc_id = "docs/01.json" }) >= 3

\* xs back to front
Reverse(xs) == [i \in 1..Len(xs) |-> xs[Len(xs) + 1 - i]]

\* C15: no two distinct aggregated hits tie on combined_score, and ranking the
\* same hits inserted in the opposite order gives the same list. Fails: the
\* key of the sort is combined_score alone, so hits at the same score keep
\* their insertion order.
C15_StrictTotalOrder ==
  pc = "search_loop" =>
    /\ \A i, j \in 1..Len(all_hits) :
          i # j => all_hits[i].combined_score # all_hits[j].combined_score
    /\ RankedHits(Reverse(all_hits), k) = RankedHits(all_hits, k)

C17_PassthroughTruncated ==
  [][/\ pc = "search_loop" /\ pc' = "generate_response"
     /\ \/ ~reranker /\ fault' = "none"
        \/ fault' = "rerank"
     => /\ retrieved_docs' =
             Take(RankedHits(all_hits, k),
                  IF is_comprehensive THEN k ELSE Min(RERANK_CAP, k))
        /\ result' = result]_vars

\* C18: decompose returns at most 8 sub-queries, no two of them equal ignoring
\* case. Fails for a query that is neither comprehensive, procedural nor
\* explanatory: its sub-queries come from _generate_sub_queries unfiltered.
C18_AtMostEightDistinct ==
  pc = "decomposed" =>
    /\ Len(search_query.decomposed) <= MAX_SUB_QUERIES
    /\ \A i, j \in 1..Len(search_query.decomposed) :
          i # j => Lower(search_query.decomposed[i]) # Lower(search_query.decomposed[j])

\* C19: the first sub-query decompose returns is the cleaned original query.
\* Fails for a query that is neither comprehensive, procedural nor
\* explanatory: its list starts with the first key term.
C19_FirstIsOriginal ==
  pc = "decomposed" =>
    /\ Len(search_query.decomposed) > 0
    /\ search_query.decomposed[1] = search_query.original

\* C20: decompose of a marker-free query with an appended context returns what
\* decompose of the query alone returns: original, decomposed, intent and
\* is_comprehensive.
C20_ContextSuffixIgnored ==
  pc = "decomposed" /\ ~Contains(CONTEXT_MARKER, query) =>
    search_query = decompose(query)

\* decompose has returned for a query with an appended context that itself
\* contains the marker, and the query has several sub-queries
C20_Witness ==
  /\ pc = "decomposed"
  /\ Contains(CONTEXT_MARKER, conversation_context)
  /\ ~Contains(CONTEXT_MARKER, query)
  /\ Len(search_query.decomposed) > 1
  /\ search_query.original = Strip(query)

\* the words of a text: the maximal runs of word characters, as <<first, last>>
WordRuns(text) ==
  { r \in (1..Len(text)) \X (1..Len(text)) :
      /\ r[1] <= r[2]
      /\ \A m \in r[1]..r[2] : IsWordChar(CharAt(text, m))
      /\ r[1] = 1 \/ ~IsWordChar(CharAt(text, r[1] - 1))
      /\ r[2] = Len(text) \/ ~IsWordChar(CharAt(text, r[2] + 1)) }

\* the text has one of the comprehensive indicators as whole words
HasComprehensiveIndicator(text) ==
  LET runs == WordRuns(text)
      word(r) == SubSeq(text, r[1], r[2])
  IN \/ \E r \in runs : word(r) \in {"all", "list", "show", "enumerate"}
     \/ \E r, t \in runs :
          /\ word(r) = "what" /\ word(t) = "are"
          /\ t[1] = r[2] + 2 /\ CharAt(text, r[2] + 1) = " "

\* C21: the is_comprehensive flag decompose computes is true exactly when the
\* cleaned query has, ignoring case, one of the indicators all, list, show,
\* enumerate, "what are" as whole words; "list all api endpoints" is
\* comprehensive and "get user 42" is not.
C21_ComprehensiveIffIndicator ==
  pc = "decomposed" =>
    /\ search_query.is_comprehensive = HasComprehensiveIndicator(Lower(search_query.original))
    /\ search_query.original = "list all api endpoints" => search_query.is_comprehensive
    /\ search_query.original = "get user 42" => ~search_query.is_comprehensive

\* decompose has returned for a query that has an indicator only inside a
\* longer word
C21_Witness ==
  /\ pc = "decomposed"
  /\ search_query.original = "call user"
  /\ ~search_query.is_comprehensive

\* C22: every add_turn puts its turn at the end of the history with a turn_id
\* greater than that of every turn added before, and the turn_ids of the
\* history increase strictly from oldest to newest.
C22_TurnIdsIncrease ==
  [][turn_counter' # turn_counter =>
       /\ Len(conversation_history') > 0
       /\ conversation_history'[Len(conversation_history')] = added'[Len(added')]
       /\ \A i \in 1..Len(added) : added[i].turn_id < added'[Len(added')].turn_id
       /\ \A i, j \in 1..Len(conversation_history') :
            i < j => conversation_history'[i].turn_id < conversation_history'[j].turn_id]_vars

\* five turns were added to a conversation that keeps two: the history ends
\* with the fifth turn and its id
C22_Witness ==
  /\ max_history_turns = 2 /\ turn_counter = 5
  /\ Len(conversation_history) = 2
  /\ conversation_history[2].turn_id = 4
  /\ conversation_history[2] = added[5]

\* C23: the history holds at most max_history_turns turns and is exactly the
\* most recently added ones in the order they were added. Fails for
\* max_history_turns = 0, where the trim history[-0:] keeps everything.
C23_HistoryIsMostRecent ==
  /\ Len(conversation_history) <= max_history_turns
  /\ LET n == IF Len(added) < max_history_turns THEN Len(added) ELSE max_history_turns
     IN conversation_history = SubSeq(added, Len(added) - n + 1, Len(added))

\* no thread is inside add_turn
Quiescent == \A t \in Callers : callers[t].at = "idle"

\* C24: when the concurrent add_turn calls have returned, no turn_id was given
\* twice, the history is in turn_id order and no turn is lost: it is the most
\* recently created turns (caps of at least 1). Fails: the calls interleave
\* between reading and writing turn_counter and around the trim.
C24_ConcurrentAddTurn ==
  Quiescent /\ max_history_turns >= 1 =>
    /\ \A i, j \in 1..Len(added) : i # j => added[i].turn_id # added[j].turn_id
    /\ \A i, j \in 1..Len(conversation_history) :
          i < j => conversation_history[i].turn_id < conversation_history[j].turn_id
    /\ LET n == IF Len(added) < max_history_turns THEN Len(added) ELSE max_history_turns
       IN conversation_history = SubSeq(added, Len(added) - n + 1, Len(added))

\* the call whose result rag_context holds was made with compaction
Compacted == rag_context.calls > 0 /\ rag_context.use_compact

C26_LastTurnVerbatim ==
  Compacted /\ Len(conversation_history) > MAX_RECENT_TURNS =>
    Contains(conversation_history[Len(conversation_history)].content,
             rag_context.full_context)

\* the seventh turn is an answer of more than 800 characters, and the
\* compacted context ends with it
C26_Witness ==
  /\ Compacted
  /\ Len(conversation_history) > MAX_RECENT_TURNS
  /\ conversation_history[Len(conversation_history)].content = LongAnswer
  /\ Len(LongAnswer) > RECENT_TURN_CHARS
  /\ Contains("9. Omega", rag_context.full_context)

\* the most recent assistant turn of a history, 0 if there is none
LastAssistant(history) ==
  IF \E i \in 1..Len(history) : history[i].role = "assistant"
    THEN CHOOSE i \in 1..Len(history) :
           /\ history[i].role = "assistant"
           /\ \A j \in (i + 1)..Len(history) : history[j].role # "assistant"
    ELSE 0

\* C27: for a conversation of more than 6 turns the whole content of the most
\* recent assistant turn is in the compacted full_context, also when the
\* user's follow-up was added after it. Fails: every turn of the recent window
\* but the last is cut at 800 characters.
C27_LastAssistantTurnKept ==
  Compacted /\ Len(conversation_history) > MAX_RECENT_TURNS
            /\ LastAssistant(conversation_history) # 0 =>
    Contains(conversation_history[LastAssistant(conversation_history)].content,
             rag_context.full_context)

\* C28: a get_context_for_rag call leaves the history, the turn counter and
\* the conversation id as they were, and what it returned is what a call made
\* in the state it leaves returns.
C28_ContextCallIsPure ==
  /\ [][rag_context'.calls > rag_context.calls =>
          /\ conversation_history' = conversation_history
          /\ turn_counter' = turn_counter
          /\ conversation_id' = conversation_id]_vars
  /\ [](rag_context.calls > 0 =>
          \E again \in {get_context_for_rag(conversation_history, rag_context.use_compact)} :
            /\ rag_context.recent_context = again.recent_context
            /\ rag_context.full_context = again.full_context
            /\ rag_context.conversation_id = again.conversation_id
            /\ rag_context.turn_count = again.turn_count)

\* a compacting call on a conversation of seven turns has returned and the
\* seven turns are still there
C28_Witness ==
  /\ Compacted
  /\ rag_context.turn_count = MaxTurns
  /\ Len(conversation_history) = MaxTurns
  /\ Contains("[PREVIOUS CONTEXT SUMMARY]", rag_context.full_context)

\* the n most recently used of the conversations held
MostRecentlyUsed(n) ==
  IdsOf(SubSeq(last_used, Len(last_used) - n + 1, Len(last_used)))

\* C29: a cleanup_old_conversations(max_conversations) on a store that holds
\* more than max_conversations conversations leaves exactly the
\* max_conversations most recently used ones. Fails: the conversations evicted
\* are the first created, whenever they were last used, and a cap of 0 evicts
\* none.
C29_CleanupKeepsMostRecentlyUsed ==
  [][cleanup'.calls > cleanup.calls /\ Len(conversations) > cleanup'.max_conversations =>
       /\ Len(conversations') = cleanup'.max_conversations
       /\ IdsOf(conversations') = MostRecentlyUsed(cleanup'.max_conversations)]_vars

\* C30: after evaluate_response the next node is format_output if is_relevant
\* is true or attempts, as that evaluation left it, has reached max_attempts,
\* and refine_query otherwise; after refine_query comes retrieve_docs, and
\* after format_output the end of the graph.
C30_StageTransitions ==
  [][/\ pc = "evaluate_response" =>
          pc' = IF is_relevant' \/ attempts' >= max_attempts'
                  THEN "format_output" ELSE "refine_query"
     /\ pc = "refine_query" => pc' = "retrieve_docs"
     /\ pc = "format_output" => pc' = "END"]_vars

\* a run that was sent to refine_query once and has then left format_output
\* with an answer still judged irrelevant, the attempts being used up
C30_Witness ==
  /\ pc = "END"
  /\ llm_calls.refine >= 1
  /\ ~is_relevant
  /\ attempts >= max_attempts

\* C31: every _refine_query builds its prompt from the query the run began
\* with, on the second and later refinements too. Fails: the prompt is built
\* from state['query'], which the refinement before has replaced.
C31_RefinesFromOriginalQuery ==
  [][llm_calls'.refine > llm_calls.refine =>
       refinement_prompt' = RefinementPrompt(original_query)]_vars

\* the first class that matches, in the order procedural, comprehensive,
\* explanatory, specific, general, "what are" counting as comprehensive
IntentByStatedOrder(query_lower) ==
  IF SearchWord("how to", query_lower) \/ SearchWord("steps", query_lower)
    THEN "procedural"
  ELSE IF \/ SearchWord("all", query_lower)
          \/ SearchWord("list", query_lower)
          \/ SearchWord("show", query_lower)
          \/ SearchWord("enumerate", query_lower)
          \/ SearchWord("what are", query_lower)
    THEN "comprehensive"
  ELSE IF \/ SearchWord("why", query_lower)
          \/ SearchWord("explain", query_lower)
          \/ SearchWord("what is", query_lower)
          \/ SearchWord("what are", query_lower)
    THEN "explanatory"
  ELSE IF \/ SearchWord("find", query_lower)
          \/ SearchWord("get", query_lower)
          \/ SearchWord("fetch", query_lower)
    THEN "specific"
  ELSE "general"

\* C32: the intent decompose reports is the first matching class in the order
\* procedural, comprehensive (with "what are"), explanatory, specific, general.
\* Fails: detect_intent has no "what are" among its comprehensive patterns, so
\* "What Are users" is explanatory.
C32_IntentFirstMatch ==
  pc = "decomposed" =>
    search_query.intent = IntentByStatedOrder(Lower(search_query.original))

\* C33: for a query that is not comprehensive and whose intent is specific or
\* general, every sub-query is one key term or two adjacent key terms (queries
\* without any key term aside). Fails: _generate_sub_queries also emits the
\* join of all terms, the skip-one pairs and the 3-term windows.
C33_OnlyTermsAndAdjacentPairs ==
  pc = "decomposed" /\ ~search_query.is_comprehensive
                    /\ search_query.intent \in {"specific", "general"} =>
    \E terms \in {_extract_key_terms(search_query.original)} :
      Len(terms) > 0 =>
        \A n \in 1..Len(search_query.decomposed) :
          \/ \E i \in 1..Len(terms) : search_query.decomposed[n] = terms[i]
          \/ \E i \in 1..(Len(terms) - 1) :
               search_query.decomposed[n] = terms[i] \o " " \o terms[i + 1]

\* a hit without its rerank_score
WithoutRerankScore(hit) ==
  [text |-> hit.text, metadata |-> hit.metadata, distance |-> hit.distance,
   combined_score |-> hit.combined_score, source |-> hit.source]

\* C34: when the cross-encoder has scored the documents, _rerank_documents
\* returns at most top_k hits in descending order of rerank_score, each an
\* input hit with its rerank_score added and no input hit twice.
C34_RerankedTopK ==
  pc = "reranked" /\ fault = "none" /\ Len(retrieved_docs) > 0 =>
    /\ Len(reranked) <= k
    /\ \A i, j \in 1..Len(reranked) :
         i < j => reranked[i].rerank_score >= reranked[j].rerank_score
    /\ \E from \in [1..Len(reranked) -> 1..Len(retrieved_docs)] :
         /\ \A i, j \in 1..Len(reranked) : i < j => from[i] # from[j]
         /\ \A i \in 1..Len(reranked) :
              WithoutRerankScore(reranked[i]) = retrieved_docs[from[i]]

\* three documents were scored 0, 1 and 1 and the best two asked for: the two
\* returned are the second and the third document
C34_Witness ==
  /\ pc = "reranked" /\ fault = "none"
  /\ Len(retrieved_docs) = 3 /\ k = 2 /\ Len(reranked) = 2
  /\ WithoutRerankScore(reranked[1]) = retrieved_docs[2]
  /\ WithoutRerankScore(reranked[2]) = retrieved_docs[3]
  /\ reranked[1].rerank_score = 1 /\ reranked[2].rerank_score = 1

\* the step is an add_parameters call made while a tool is pending
AddParametersWhilePending ==
  /\ returned'.calls > returned.calls
  /\ returned'.op = "add_parameters"
  /\ pending_tool # ""

\* C35: an add_parameters call made while a tool is pending returns True
\* exactly when every required parameter of that tool is in the merged
\* parameters with a value other than None; the merged parameters are those
\* collected before, overridden by the newly extracted ones, and the pending
\* tool is the same afterwards.
C35_AddParametersCompletion ==
  [][AddParametersWhilePending =>
       /\ returned'.all_parameters_available =
            (\A i \in 1..Len(TOOL_DEFINITIONS[pending_tool]) :
               TOOL_DEFINITIONS[pending_tool][i].required =>
                 /\ TOOL_DEFINITIONS[pending_tool][i].name \in DOMAIN collected_parameters'
                 /\ collected_parameters'[TOOL_DEFINITIONS[pending_tool][i].name] # PY_NONE)
       /\ DOMAIN collected_parameters' =
            DOMAIN collected_parameters \cup DOMAIN returned'.parameters
       /\ \A p \in DOMAIN collected_parameters' :
            collected_parameters'[p] = IF p \in DOMAIN returned'.parameters
                                         THEN returned'.parameters[p]
                                         ELSE collected_parameters[p]
       /\ pending_tool' = pending_tool]_vars

\* update_task_status is pending with the task_id collected earlier, and
\* the third call, an add_parameters that brought only the status, reported
\* completion with the task_id still there
C35_Witness ==
  /\ pending_tool = "update_task_status"
  /\ returned.op = "add_parameters" /\ returned.calls = 3
  /\ returned.all_parameters_available
  /\ DOMAIN returned.parameters = {"status"}
  /\ DOMAIN collected_parameters = {"task_id", "status"}
  /\ collected_parameters["task_id"] = "task1"
  /\ collected_parameters["status"] = "completed"

\* C36: whenever a run is at format_output, is_relevant is true: the answer
\* was judged relevant or the evaluator forced acceptance at the attempts cap.
\* Fails: the evaluator compares the attempts before its own increment with
\* the cap, the conditional edge the attempts after it, so the last allowed
\* pass is accepted by the edge with is_relevant still false.
C36_FinalizeOnlyWhenRelevant ==
  pc \in {"format_output", "END"} => is_relevant

\* C38: within one pass the comprehensiveness classification that sized the
\* retrieval (k and the re-rank top_k) is the one _evaluate_response will
\* compute for the same state['query'], for a follow-up query that carries
\* conversation context too. Fails: the retrieval classifies the query after
\* the conversation context has been appended to it, the evaluator the bare
\* question.
C38_SameClassificationInOnePass ==
  pc = "search_loop" =>
    is_comprehensive = AnalyzeIsComprehensive(CleanQuery(query))

\* the raw results the searches of the pass have returned so far (a search
\* returns at most n_results = k hits)
RawSeen ==
  { searches[q[1]][q[2]]
    : q \in { p \in (1..search_idx) \X (1..k) : p[2] <= Len(searches[p[1]]) } }

\* C39: during and after the search loop every aggregated hit has its text,
\* its metadata and its distance from one and the same raw search result.
\* Fails: a repeat sighting of an identity with a lower combined score
\* replaces the distance and the score only, so the hit keeps the text and
\* metadata of the chunk seen first with the distance of another chunk of
\* the same document section.
C39_HitFromOneRawResult ==
  pc = "search_loop" =>
    \A n \in 1..Len(all_hits) :
      \E raw \in RawSeen :
        /\ all_hits[n].text = raw.chunk.text
        /\ all_hits[n].metadata.doc_id = raw.chunk.doc_id
        /\ all_hits[n].metadata.start_line = raw.chunk.start_line
        /\ all_hits[n].metadata.end_line = raw.chunk.end_line
        /\ all_hits[n].metadata.section_path_json = raw.chunk.section_path_json
        /\ all_hits[n].distance = raw.dist

\* C40: every conversation the store holds is registered under its own id:
\* the key of each entry is the conversation_id of the manager held there.
\* Fails: clear_history gives the manager a new conversation_id and the store
\* keeps it under the old key.
C40_KeyIsConversationId ==
  \A i \in 1..Len(managers) : managers[i].key = managers[i].conversation_id

====
